---- MODULE Spec2Model ----
(***************************************************************************)
(* A model of dws (ascarter/devspace): tool resolution, GitHub release     *)
(* asset selection, the download / checksum / extract / symlink pipeline   *)
(* and the lockfile driven install / update runs of the workspace.         *)
(*                                                                         *)
(* Text is modelled as a sequence of one-character strings, so that        *)
(* trimming, lower-casing, substring search, regex matching and hex        *)
(* coding are computed character by character as the code computes them.   *)
(***************************************************************************)
EXTENDS Integers, Sequences, FiniteSets, TLC

VARIABLES
    assets,            \* GithubRelease.assets handed to select_asset
    filters,           \* the asset_filter list handed to select_asset
    selected,          \* the outcome of select_asset
    profile_config,    \* ToolConfigFile of the profile (dws.toml): name -> spec
    workspace_config,  \* ToolConfigFile of the workspace override (config.toml)
    machine,           \* what platform_tags() and host_slug() read from the host
    entries,           \* ToolSet.entries produced by from_configs
    extract_tree,      \* files below an extraction root (relative paths)
    bin_source,        \* a ToolBinary.source handed to resolve_binary_path
    resolved,          \* the outcome of resolve_binary_path
    latest,            \* forge: the tag `releases/latest` of a project answers with
    now,               \* the clock: the number of runs started so far
    lock_disk,         \* the lockfile on disk (dws.lock), if any
    bin_dir,           \* the workspace bin directory: entry name -> entry
    share_dir,         \* the workspace share directory: target path -> symlink source
    config_dir,        \* XDG config directory: target path -> symlink source
    cache,             \* cache/tools: tool and version directories -> files and contents
    dirs,              \* which of the state and the cache directory exist
    run,               \* the command in progress and its position
    lockfile,          \* the Lockfile value the run builds in memory
    tasks,             \* the ToolInstallTask queue of the run
    attempt,           \* the locals of the GithubInstaller::install in progress
    outcome,           \* how the last run ended
    before,            \* the disk as the run in progress (or the last run) found it
    call,              \* the argument a function is called with
    returned,          \* what the function returned
    suspended,         \* the memory of a second invocation while the first one runs
    repo,              \* the git repository of the active profile, if it is one
    command,           \* the reset, use or init in progress or last returned
    active_profile,    \* the active profile's name, in memory and in config.toml
    profiles           \* the profile directories: name -> manifest and origin URL

selectVars == <<assets, filters, selected>>
toolsetVars == <<profile_config, workspace_config, machine, entries>>
binaryVars == <<extract_tree, bin_source, resolved>>
diskVars == <<lock_disk, bin_dir, share_dir, config_dir, cache, dirs>>
runVars == <<latest, now, diskVars, run, lockfile, tasks, attempt, outcome, before>>
pureVars == <<call, returned, suspended>>
activeVars == <<active_profile, profiles>>
profileVars == <<repo, command, activeVars>>
vars == <<selectVars, toolsetVars, binaryVars, runVars, pureVars, profileVars>>

(***************************************************************************)
(* Bounds of the model.                                                    *)
(***************************************************************************)
MaxAssets == 3
MaxFilters == 2

(***************************************************************************)
(* Text helpers (Rust str methods).                                        *)
(***************************************************************************)
UpperChars == <<"A", "B", "C", "D", "E", "F", "G", "H", "I", "J", "K", "L", "M",
                "N", "O", "P", "Q", "R", "S", "T", "U", "V", "W", "X", "Y", "Z">>
LowerChars == <<"a", "b", "c", "d", "e", "f", "g", "h", "i", "j", "k", "l", "m",
                "n", "o", "p", "q", "r", "s", "t", "u", "v", "w", "x", "y", "z">>
Digits == <<"0", "1", "2", "3", "4", "5", "6", "7", "8", "9">>

\* The characters the model uses, in ASCII order (byte order of str comparison).
AsciiChars == <<" ", "!", "$", "*", ",", "-", ".", "/">> \o Digits \o <<":">>
              \o UpperChars \o <<"[", "^", "_">> \o LowerChars

Ord(ch) == CHOOSE i \in 1..Len(AsciiChars) : AsciiChars[i] = ch

Range(s) == {s[i] : i \in 1..Len(s)}

to_ascii_lowercase_char(ch) ==
    IF \E i \in 1..Len(UpperChars) : UpperChars[i] = ch
    THEN LowerChars[CHOOSE i \in 1..Len(UpperChars) : UpperChars[i] = ch]
    ELSE ch

to_ascii_lowercase(s) == [i \in 1..Len(s) |-> to_ascii_lowercase_char(s[i])]

ends_with(s, suffix) ==
    /\ Len(suffix) <= Len(s)
    /\ SubSeq(s, Len(s) - Len(suffix) + 1, Len(s)) = suffix

contains(s, needle) ==
    \E i \in 0..(Len(s) - Len(needle)) : SubSeq(s, i + 1, i + Len(needle)) = needle

\* Ord::cmp of two str values: lexicographic by byte.
str_cmp(x, y) ==
    LET n == IF Len(x) < Len(y) THEN Len(x) ELSE Len(y)
        diff == {i \in 1..n : x[i] # y[i]}
    IN  IF diff # {}
        THEN LET i == CHOOSE k \in diff : \A j \in diff : k <= j
             IN  IF Ord(x[i]) > Ord(y[i]) THEN "Greater" ELSE "Less"
        ELSE IF Len(x) = Len(y) THEN "Equal"
        ELSE IF Len(x) > Len(y) THEN "Greater" ELSE "Less"

(***************************************************************************)
(* The regex subset the asset filters of the model use: literal            *)
(* characters, `.`, a postfix `*`, a leading `^` and a trailing `$`.       *)
(* A pattern with an unclosed `[` or a `*` with nothing to repeat does     *)
(* not compile.                                                            *)
(***************************************************************************)
Regex_new(pattern) ==
    /\ "[" \notin Range(pattern)
    /\ pattern = <<>> \/ pattern[1] # "*"
    /\ \A i \in 2..Len(pattern) :
          pattern[i] = "*" => pattern[i - 1] \notin {"*", "^"}

RECURSIVE match_here(_, _)
match_here(re, text) ==
    IF re = <<>> THEN TRUE
    ELSE IF Len(re) >= 2 /\ re[2] = "*"
    THEN \E k \in 0..Len(text) :
            /\ \A j \in 1..k : re[1] = "." \/ re[1] = text[j]
            /\ match_here(SubSeq(re, 3, Len(re)), SubSeq(text, k + 1, Len(text)))
    ELSE IF re = <<"$">> THEN text = <<>>
    ELSE IF text # <<>> /\ (re[1] = "." \/ re[1] = text[1])
    THEN match_here(Tail(re), Tail(text))
    ELSE FALSE

\* Regex::is_match: an unanchored search.
is_match(re, text) ==
    IF re # <<>> /\ re[1] = "^"
    THEN match_here(Tail(re), text)
    ELSE \E i \in 0..Len(text) : match_here(re, SubSeq(text, i + 1, Len(text)))

(***************************************************************************)
(* Release Client: asset scoring and selection (installers/github.rs).     *)
(***************************************************************************)
S_x86_64 == <<"x", "8", "6", "_", "6", "4">>
S_aarch64 == <<"a", "a", "r", "c", "h", "6", "4">>
S_linux == <<"l", "i", "n", "u", "x">>
S_darwin == <<"d", "a", "r", "w", "i", "n">>
S_macos == <<"m", "a", "c", "o", "s">>

extension_score(name) ==
    LET tar_gz == <<".", "t", "a", "r", ".", "g", "z">>
        tar_xz == <<".", "t", "a", "r", ".", "x", "z">>
        tgz == <<".", "t", "g", "z">>
        zip == <<".", "z", "i", "p">>
        tar == <<".", "t", "a", "r">>
    IN  IF ends_with(name, tar_gz) \/ ends_with(name, tar_xz) THEN 30
        ELSE IF ends_with(name, tgz) THEN 25
        ELSE IF ends_with(name, zip) THEN 20
        ELSE IF ends_with(name, tar) THEN 15
        ELSE 5

\* A variant in which the bonuses exclude each other: only the first one found
\* is counted.
architecture_score_exclusive(name) ==
    LET lowered == to_ascii_lowercase(name)
        amd64 == <<"a", "m", "d", "6", "4">>
        arm64 == <<"a", "r", "m", "6", "4">>
        apple == <<"a", "p", "p", "l", "e">>
    IN  IF contains(lowered, S_x86_64) \/ contains(lowered, amd64) THEN 10
        ELSE IF contains(lowered, arm64) \/ contains(lowered, S_aarch64) THEN 7
        ELSE IF contains(lowered, S_linux) THEN 5
        ELSE IF contains(lowered, apple) \/ contains(lowered, S_darwin)
                \/ contains(lowered, S_macos) THEN 5
        ELSE 0

architecture_score(name) ==
    LET lowered == to_ascii_lowercase(name)
        amd64 == <<"a", "m", "d", "6", "4">>
        arm64 == <<"a", "r", "m", "6", "4">>
        apple == <<"a", "p", "p", "l", "e">>
    IN  (IF contains(lowered, S_x86_64) \/ contains(lowered, amd64) THEN 10 ELSE 0)
      + (IF contains(lowered, arm64) \/ contains(lowered, S_aarch64) THEN 7 ELSE 0)
      + (IF contains(lowered, S_linux) THEN 5 ELSE 0)
      + (IF contains(lowered, apple) \/ contains(lowered, S_darwin)
            \/ contains(lowered, S_macos) THEN 5 ELSE 0)

\* AssetRank::new
AssetRank(asset) ==
    [score |-> (IF asset.state \in {"uploaded", "available"} THEN 100 ELSE 0)
               + extension_score(asset.name) + architecture_score(asset.name),
     size |-> asset.size,
     name |-> asset.name]

\* A variant of the order without the Reverse wrappers: the larger size and the
\* later name are the greater rank.
AssetRank_cmp_unreversed(a, b) ==
    IF a.score # b.score THEN (IF a.score > b.score THEN "Greater" ELSE "Less")
    ELSE IF a.size # b.size THEN (IF a.size > b.size THEN "Greater" ELSE "Less")
    ELSE str_cmp(a.name, b.name)

\* Ord for AssetRank: (score, Reverse(size), Reverse(name)), lexicographic.
AssetRank_cmp(a, b) ==
    IF a.score # b.score THEN (IF a.score > b.score THEN "Greater" ELSE "Less")
    ELSE IF a.size # b.size THEN (IF a.size < b.size THEN "Greater" ELSE "Less")
    ELSE str_cmp(b.name, a.name)

SelectErr(e) ==
    [status |-> "err", err |-> e, pattern_index |-> 0, pattern |-> <<>>,
     asset |-> [name |-> <<>>, browser_download_url |-> <<>>, size |-> 0,
                state |-> "none"]]
SelectPending == [SelectErr("") EXCEPT !.status = "pending"]
SelectedAsset(asset, index, pattern) ==
    [status |-> "ok", err |-> "", pattern_index |-> index, pattern |-> pattern,
     asset |-> asset]

\* A variant of the inner loop in which an equal rank is not remembered.
RECURSIVE scan_assets_first_of_equals(_, _, _, _)
scan_assets_first_of_equals(as, i, pattern, acc) ==
    IF i > Len(as) THEN acc
    ELSE IF ~is_match(pattern, as[i].name)
    THEN scan_assets_first_of_equals(as, i + 1, pattern, acc)
    ELSE IF acc.best = 0
    THEN scan_assets_first_of_equals(as, i + 1, pattern, [acc EXCEPT !.best = i])
    ELSE LET o == AssetRank_cmp(AssetRank(as[i]), AssetRank(as[acc.best]))
         IN  scan_assets_first_of_equals(as, i + 1, pattern,
                 IF o = "Greater" THEN [best |-> i, ambiguous |-> FALSE] ELSE acc)

\* A variant of the inner loop in which a tie, once seen, is never forgotten.
RECURSIVE scan_assets_tie_kept(_, _, _, _)
scan_assets_tie_kept(as, i, pattern, acc) ==
    IF i > Len(as) THEN acc
    ELSE IF ~is_match(pattern, as[i].name) THEN scan_assets_tie_kept(as, i + 1, pattern, acc)
    ELSE IF acc.best = 0
    THEN scan_assets_tie_kept(as, i + 1, pattern, [acc EXCEPT !.best = i])
    ELSE LET o == AssetRank_cmp(AssetRank(as[i]), AssetRank(as[acc.best]))
         IN  scan_assets_tie_kept(as, i + 1, pattern,
                 CASE o = "Greater" -> [acc EXCEPT !.best = i]
                   [] o = "Equal" -> [acc EXCEPT !.ambiguous = TRUE]
                   [] OTHER -> acc)

\* The inner loop of select_asset over self.assets for one compiled filter:
\* acc.best is the position of the best asset so far (0: none yet).
RECURSIVE scan_assets(_, _, _, _)
scan_assets(as, i, pattern, acc) ==
    IF i > Len(as) THEN acc
    ELSE IF ~is_match(pattern, as[i].name) THEN scan_assets(as, i + 1, pattern, acc)
    ELSE IF acc.best = 0
    THEN scan_assets(as, i + 1, pattern, [acc EXCEPT !.best = i])
    ELSE LET o == AssetRank_cmp(AssetRank(as[i]), AssetRank(as[acc.best]))
         IN  scan_assets(as, i + 1, pattern,
                 CASE o = "Greater" -> [best |-> i, ambiguous |-> FALSE]
                   [] o = "Equal" -> [acc EXCEPT !.ambiguous = TRUE]
                   [] OTHER -> acc)

\* A variant of the outer loop in which a later filter with a match is preferred.
RECURSIVE select_from_later_first(_, _, _)
select_from_later_first(as, fs, index) ==
    IF index >= Len(fs) THEN SelectErr("NoMatch")
    ELSE LET pattern == fs[index + 1]
             later == select_from_later_first(as, fs, index + 1)
         IN  IF ~Regex_new(pattern) THEN SelectErr("InvalidRegex")
             ELSE IF later.status = "ok" THEN later
             ELSE LET r == scan_assets(as, 1, pattern, [best |-> 0, ambiguous |-> FALSE])
                  IN  IF r.best # 0
                      THEN IF r.ambiguous THEN SelectErr("Ambiguous")
                           ELSE SelectedAsset(as[r.best], index, pattern)
                      ELSE later

\* The outer loop of select_asset over the filters, from 0-based `index` on.
RECURSIVE select_from(_, _, _)
select_from(as, fs, index) ==
    IF index >= Len(fs) THEN SelectErr("NoMatch")
    ELSE LET pattern == fs[index + 1]
         IN  IF ~Regex_new(pattern) THEN SelectErr("InvalidRegex")
             ELSE LET r == scan_assets(as, 1, pattern, [best |-> 0, ambiguous |-> FALSE])
                  IN  IF r.best # 0
                      THEN IF r.ambiguous THEN SelectErr("Ambiguous")
                           ELSE SelectedAsset(as[r.best], index, pattern)
                      ELSE select_from(as, fs, index + 1)

\* A variant without the precondition on the asset list.
select_asset_any_assets(as, fs) ==
    IF fs = <<>> THEN SelectErr("NoFilters")
    ELSE select_from(as, fs, 0)

select_asset(as, fs) ==
    IF fs = <<>> THEN SelectErr("NoFilters")
    ELSE IF as = <<>> THEN SelectErr("NoAssets")
    ELSE select_from(as, fs, 0)

(***************************************************************************)
(* Option<T>.                                                              *)
(***************************************************************************)
None == [some |-> FALSE, v |-> <<>>]
Some(x) == [some |-> TRUE, v |-> x]

(***************************************************************************)
(* SHA-256 digests and their hex coding (installers/github.rs).  An        *)
(* archive body is identified by a small number; Sha256 stands for the     *)
(* hash function and maps body c to 32 bytes of value 17 * c.              *)
(***************************************************************************)
DigestLen == 32
HexLen == 64
HexChars == <<"0", "1", "2", "3", "4", "5", "6", "7", "8", "9",
              "a", "b", "c", "d", "e", "f">>
S_sha256 == <<"s", "h", "a", "2", "5", "6", ":">>

Sha256(body) == [i \in 1..DigestLen |-> (17 * body) % 256]

HexDigits == Range(HexChars) \cup {"A", "B", "C", "D", "E", "F"}
HexValues ==
    [ch \in HexDigits |->
        (CHOOSE i \in 1..Len(HexChars) : HexChars[i] = to_ascii_lowercase_char(ch)) - 1]

\* hex::decode: [ok, bytes]; fails on an odd length or a character that is no
\* hex digit.
hex_decode(s) ==
    IF Len(s) % 2 = 0 /\ \A i \in 1..Len(s) : s[i] \in HexDigits
    THEN [ok |-> TRUE,
          bytes |-> [i \in 1..(Len(s) \div 2) |->
                        16 * HexValues[s[2 * i - 1]] + HexValues[s[2 * i]]]]
    ELSE [ok |-> FALSE, bytes |-> <<>>]

\* hex::encode: two lower-case hex digits per byte.
format_digest(bytes) ==
    [i \in 1..(2 * Len(bytes)) |->
        IF i % 2 = 1 THEN HexChars[(bytes[(i + 1) \div 2] \div 16) + 1]
        ELSE HexChars[(bytes[i \div 2] % 16) + 1]]

is_whitespace(ch) == ch = " "

\* str::trim
trim(s) ==
    IF \A i \in 1..Len(s) : is_whitespace(s[i]) THEN <<>>
    ELSE SubSeq(s,
            CHOOSE i \in 1..Len(s) :
                ~is_whitespace(s[i]) /\ \A j \in 1..(i - 1) : is_whitespace(s[j]),
            CHOOSE i \in 1..Len(s) :
                ~is_whitespace(s[i]) /\ \A j \in (i + 1)..Len(s) : is_whitespace(s[j]))

\* parse_sha256: [ok, bytes]
parse_sha256(value) ==
    LET trimmed == trim(value)
        digest == SubSeq(trimmed, Len(S_sha256) + 1, Len(trimmed))
    IN  IF Len(trimmed) < Len(S_sha256)                    \* strip_prefix
           \/ SubSeq(trimmed, 1, Len(S_sha256)) # S_sha256
        THEN [ok |-> FALSE, bytes |-> <<>>]
        ELSE IF Len(digest) # HexLen THEN [ok |-> FALSE, bytes |-> <<>>]
        ELSE hex_decode(digest)

\* A manifest checksum string: the prefix followed by HexLen copies of `ch`.
ChecksumOf(ch) == S_sha256 \o [i \in 1..HexLen |-> ch]

(***************************************************************************)
(* Tool Resolver (toolset.rs).                                             *)
(***************************************************************************)
\* A variant that trims the filter value and keeps its case.
normalize_filter_keeping_case(value) == trim(value)

normalize_filter(value) == to_ascii_lowercase(trim(value))

\* normalize_tool_filters, for one spec
normalize_spec_filters(spec) ==
    [spec EXCEPT
        !.platforms = [i \in 1..Len(spec.platforms) |-> normalize_filter(spec.platforms[i])],
        !.hosts = [i \in 1..Len(spec.hosts) |-> normalize_filter(spec.hosts[i])]]

normalize_tool_filters(map) == [n \in DOMAIN map |-> normalize_spec_filters(map[n])]

is_ascii_alphanumeric(ch) ==
    ch \in Range(UpperChars) \cup Range(LowerChars) \cup Range(Digits)

\* Parts of `s` between separator characters, empty parts dropped.
RECURSIVE split_nonempty(_, _, _)
split_nonempty(s, seps, cur) ==
    IF s = <<>> THEN (IF cur = <<>> THEN <<>> ELSE <<cur>>)
    ELSE IF s[1] \in seps
    THEN (IF cur = <<>> THEN <<>> ELSE <<cur>>) \o split_nonempty(Tail(s), seps, <<>>)
    ELSE split_nonempty(Tail(s), seps, Append(cur, s[1]))

\* linux_distribution_tags: ID, then the items of ID_LIKE, of /etc/os-release
linux_distribution_tags(m) ==
    (IF m.os_release.id.some THEN <<m.os_release.id.v>> ELSE <<>>)
    \o (IF m.os_release.id_like.some
        THEN LET items == split_nonempty(m.os_release.id_like.v, {" ", ","}, <<>>)
             IN  [i \in 1..Len(items) |-> to_ascii_lowercase(items[i])]
        ELSE <<>>)

platform_tags(m) ==
    LET os == normalize_filter(m.os)
    IN  {os, os \o <<"-">> \o normalize_filter(m.arch)}
        \cup (IF os = S_linux
              THEN {S_linux \o <<"-">> \o d : d \in Range(linux_distribution_tags(m))}
              ELSE {})
        \cup (IF os = S_macos THEN {S_darwin} ELSE {})


\* The loop of host_slug over the raw host name: acc = [slug, previous_dash].
RECURSIVE slug_chars(_, _)
slug_chars(raw, acc) ==
    IF raw = <<>> THEN acc.slug
    ELSE IF is_ascii_alphanumeric(raw[1])
    THEN slug_chars(Tail(raw), [slug |-> Append(acc.slug, to_ascii_lowercase_char(raw[1])),
                                previous_dash |-> FALSE])
    ELSE IF acc.previous_dash THEN slug_chars(Tail(raw), acc)
    ELSE slug_chars(Tail(raw), [slug |-> Append(acc.slug, "-"), previous_dash |-> TRUE])

trim_matches(s, ch) ==
    LET keep == {i \in 1..Len(s) : s[i] # ch}
    IN  IF keep = {} THEN <<>>
        ELSE SubSeq(s, CHOOSE i \in keep : \A j \in keep : i <= j,
                       CHOOSE i \in keep : \A j \in keep : i >= j)

\* host_slug: always Some(..) in the code.  m.host_names lists what
\* fallible::hostname(), HOSTNAME, COMPUTERNAME and HOST yield, in this order.
host_slug(m) ==
    LET S_local == <<"l", "o", "c", "a", "l">>
        named == {i \in 1..Len(m.host_names) :
                     m.host_names[i].some /\ trim(m.host_names[i].v) # <<>>}
        raw == IF named = {} THEN S_local
               ELSE m.host_names[CHOOSE i \in named : \A j \in named : i <= j].v
        slug == trim_matches(slug_chars(raw, [slug |-> <<>>, previous_dash |-> FALSE]), "-")
    IN  IF slug = <<>> THEN S_local ELSE slug

\* ToolSpecToml::applies_to
applies_to(spec, tags, slug) ==
    LET platform_ok == IF spec.platforms = <<>> THEN TRUE
                       ELSE \E i \in 1..Len(spec.platforms) : spec.platforms[i] \in tags
    IN  IF ~platform_ok THEN FALSE
        ELSE IF spec.hosts = <<>> THEN TRUE
        ELSE \E i \in 1..Len(spec.hosts) : spec.hosts[i] = slug

\* ToolSpecToml::into_definition
into_definition(spec, name) ==
    [name |-> name, installer |-> spec.installer, project |-> spec.project,
     version |-> spec.version, url |-> spec.url, shell |-> spec.shell,
     bin |-> spec.bin, extras |-> spec.extras, asset_filter |-> spec.asset_filter,
     checksum |-> spec.checksum, app |-> spec.app, team_id |-> spec.team_id,
     self_update |-> spec.self_update, platforms |-> spec.platforms,
     hosts |-> spec.hosts]

ToolEntry(source, definition) == [source |-> source, definition |-> definition]

ProfileSource == "profiles/default/dws.toml"
WorkspaceSource == "config.toml"

\* A variant of from_configs in which the override is merged field by field:
\* a field the workspace entry leaves unset keeps the value of the profile entry.
from_configs_field_merge(profile_source, profile, workspace_path, workspace, m) ==
    LET tags == platform_tags(m)
        slug == host_slug(m)
        p == normalize_tool_filters(profile)
        w == normalize_tool_filters(workspace)
        from_profile == {n \in DOMAIN p : applies_to(p[n], tags, slug)}
        from_workspace == {n \in DOMAIN w : applies_to(w[n], tags, slug)}
        merged(a, b) ==
            [b EXCEPT !.version = IF b.version.some THEN b.version ELSE a.version,
                      !.checksum = IF b.checksum.some THEN b.checksum ELSE a.checksum,
                      !.url = IF b.url.some THEN b.url ELSE a.url,
                      !.platforms = IF b.platforms # <<>> THEN b.platforms ELSE a.platforms,
                      !.hosts = IF b.hosts # <<>> THEN b.hosts ELSE a.hosts]
    IN  [n \in from_profile \cup from_workspace |->
            IF n \in from_workspace /\ n \in from_profile
            THEN ToolEntry(workspace_path, into_definition(merged(p[n], w[n]), n))
            ELSE IF n \in from_workspace
            THEN ToolEntry(workspace_path, into_definition(w[n], n))
            ELSE ToolEntry(profile_source, into_definition(p[n], n))]

\* A variant of from_configs in which every workspace entry overrides, whether
\* or not it applies to the machine.
from_configs_unfiltered_override(profile_source, profile, workspace_path, workspace, m) ==
    LET tags == platform_tags(m)
        slug == host_slug(m)
        p == normalize_tool_filters(profile)
        w == normalize_tool_filters(workspace)
        from_profile == {n \in DOMAIN p : applies_to(p[n], tags, slug)}
    IN  [n \in from_profile \cup DOMAIN w |->
            IF n \in DOMAIN w
            THEN ToolEntry(workspace_path, into_definition(w[n], n))
            ELSE ToolEntry(profile_source, into_definition(p[n], n))]

\* ToolSet::from_configs: the BTreeMap of entries, as a function of the names.
from_configs(profile_source, profile, workspace_path, workspace, m) ==
    LET tags == platform_tags(m)
        slug == host_slug(m)
        p == normalize_tool_filters(profile)
        w == normalize_tool_filters(workspace)
        from_profile == {n \in DOMAIN p : applies_to(p[n], tags, slug)}
        from_workspace == {n \in DOMAIN w : applies_to(w[n], tags, slug)}
    IN  [n \in from_profile \cup from_workspace |->
            IF n \in from_workspace
            THEN ToolEntry(workspace_path, into_definition(w[n], n))
            ELSE ToolEntry(profile_source, into_definition(p[n], n))]

(***************************************************************************)
(* Inputs of the asset selection specification.                            *)
(***************************************************************************)
N_amd == <<"T", "-", "L", "i", "n", "u", "x", "-", "a", "m", "d", "6", "4", ".", "t", "g", "z">>
N_arm == <<"t", "-", "l", "i", "n", "u", "x", "-", "a", "r", "m", "6", "4", ".", "t", "g", "z">>
P_mac == <<"m", "a", "c">>
P_64gz == <<"6", "4", ".", "*", "g", "z", "$">>

SeqsUpTo(S, n) == UNION {[1..k -> S] : k \in 0..n}

SelectIdle == assets = <<>> /\ filters = <<>> /\ selected = SelectPending
ToolSetIdle ==
    /\ profile_config = <<>> /\ workspace_config = <<>>
    /\ machine = <<>> /\ entries = None
BinaryIdle == extract_tree = {} /\ bin_source = <<>> /\ resolved = <<>>
PureIdle == call = <<>> /\ returned = <<>> /\ suspended = <<>>
ProfileIdle == repo = <<>> /\ command = <<>> /\ active_profile = <<>> /\ profiles = <<>>
RunIdle ==
    /\ latest = <<>> /\ now = 0 /\ lock_disk = <<>> /\ bin_dir = <<>>
    /\ share_dir = <<>> /\ config_dir = <<>> /\ cache = <<>> /\ dirs = {} /\ run = <<>>
    /\ lockfile = <<>> /\ tasks = <<>> /\ attempt = <<>> /\ outcome = <<>>
    /\ before = <<>>

InitSelect ==
    LET N_mac == <<"t", "-", "m", "a", "c", "o", "s", ".", "z", "i", "p">>
        N_amd_lower == to_ascii_lowercase(N_amd)
        AssetPool ==
            { [name |-> N_amd, browser_download_url |-> N_amd, size |-> 2,
               state |-> "uploaded"],
              [name |-> N_arm, browser_download_url |-> N_arm, size |-> 2,
               state |-> "uploaded"],
              [name |-> N_arm, browser_download_url |-> N_arm, size |-> 1,
               state |-> "new"],
              [name |-> N_mac, browser_download_url |-> N_mac, size |-> 1,
               state |-> "uploaded"],
              [name |-> N_amd, browser_download_url |-> N_amd, size |-> 1,
               state |-> "uploaded"],
              [name |-> N_amd_lower, browser_download_url |-> N_amd, size |-> 1,
               state |-> "available"] }
        PatternPool == {<<"i", "n", "u", "x">>, P_mac, P_64gz, <<"[">>}
    IN  /\ assets \in SeqsUpTo(AssetPool, MaxAssets)
        /\ filters \in SeqsUpTo(PatternPool, MaxFilters)
        /\ selected = SelectPending
        /\ ToolSetIdle /\ BinaryIdle /\ RunIdle /\ PureIdle /\ ProfileIdle

\* release.select_asset(&self.asset_filters)
SelectAsset ==
    /\ selected.status = "pending"
    /\ selected' = select_asset(assets, filters)
    /\ UNCHANGED <<profileVars, assets, filters, toolsetVars, binaryVars, pureVars, runVars>>

SpecSelect == InitSelect /\ [][SelectAsset]_vars

(***************************************************************************)
(* Properties of the asset selection.                                      *)
(***************************************************************************)
SelectDone == selected.status # "pending"

\* Positions (1-based) of the assets whose name the filter at position k matches.
Candidates(k) == {i \in 1..Len(assets) : is_match(filters[k], assets[i].name)}

\* Positions of the filters that decide the outcome when reached: the filter
\* does not compile, or it matches at least one asset name.
Deciding == {k \in 1..Len(filters) : ~Regex_new(filters[k]) \/ Candidates(k) # {}}
FirstDeciding == CHOOSE k \in Deciding : \A j \in Deciding : k <= j

\* C4: select_asset consults the filters in declaration order and stops at the
\* first filter that matches an asset name: a returned pattern_index is the
\* smallest index of a filter with any match, the returned asset matches that
\* filter, and the outcome is the outcome for the filter list cut after that
\* filter, so no later filter influences it.
C4_FirstMatchingFilterWins ==
    SelectDone /\ assets # <<>> /\ Deciding # {} =>
        /\ selected = select_asset(assets, SubSeq(filters, 1, FirstDeciding))
        /\ selected.status = "ok" =>
              /\ selected.pattern_index + 1 = FirstDeciding
              /\ selected.pattern = filters[FirstDeciding]
              /\ \E i \in Candidates(FirstDeciding) : assets[i] = selected.asset
              /\ \A j \in 1..selected.pattern_index : Candidates(j) = {}

\* An asset was returned for the first filter although the second filter alone
\* selects a different asset.
C4_Witness ==
    /\ selected.status = "ok"
    /\ selected.pattern_index = 0
    /\ Len(filters) = 2
    /\ select_asset(assets, <<filters[2]>>).status = "ok"
    /\ select_asset(assets, <<filters[2]>>).asset # selected.asset

\* The candidates of filter k whose rank no other candidate exceeds.
MaxRanked(k) ==
    {i \in Candidates(k) :
        \A j \in Candidates(k) :
            AssetRank_cmp(AssetRank(assets[j]), AssetRank(assets[i])) # "Greater"}

\* C5: if, for the first filter that matches anything, the maximum rank is
\* attained by two or more matching assets, select_asset fails with the
\* ambiguity error; it returns no asset and does not go on to the next filter.
C5_TieAtMaximumIsAmbiguous ==
    /\ SelectDone
    /\ assets # <<>>
    /\ Deciding # {}
    /\ \A k \in 1..FirstDeciding : Regex_new(filters[k])
    /\ Cardinality(MaxRanked(FirstDeciding)) >= 2
    => selected = SelectErr("Ambiguous")

\* The first filter is tied at its maximum while the second filter alone selects
\* an asset.
C5_Witness ==
    /\ selected = SelectErr("Ambiguous")
    /\ Len(filters) = 2
    /\ Cardinality(MaxRanked(1)) >= 2
    /\ select_asset(assets, <<filters[2]>>).status = "ok"

(***************************************************************************)
(* Inputs of the tool resolution specification.                            *)
(***************************************************************************)
MaxTools == 2

T_rg == <<"r", "g">>
T_fd == <<"f", "d">>
T_jq == <<"j", "q">>
V_1 == <<"v", "1">>
V_2 == <<"v", "2">>
PR_rg == <<"B", "u", "r", "n", "t", "S", "u", "s", "h", "i", "/",
           "r", "i", "p", "g", "r", "e", "p">>

ToolBinary(source, link) == [source |-> source, link |-> link]

\* A ToolSpecToml as serde fills it in: absent keys are None, empty or false.
ToolSpecToml(installer, version, checksum, self_update, platforms, hosts) ==
    [installer |-> installer,
     project |-> IF installer = "github" THEN Some(PR_rg) ELSE None,
     version |-> version,
     url |-> IF installer = "github" THEN None
             ELSE Some(<<"h", "t", "t", "p", "s", ":", "/", "/", "x", "/", "i", ".", "s", "h">>),
     shell |-> IF installer = "script" THEN Some(<<"b", "a", "s", "h">>) ELSE None,
     bin |-> <<ToolBinary(T_rg, None)>>,
     extras |-> <<>>,
     asset_filter |-> IF installer = "github" THEN <<<<"i", "n", "u", "x">>>> ELSE <<>>,
     checksum |-> checksum,
     app |-> None,
     team_id |-> None,
     self_update |-> self_update,
     platforms |-> platforms,
     hosts |-> hosts]

Machine(os, arch, id, id_like, host_names) ==
    [os |-> os, arch |-> arch, os_release |-> [id |-> id, id_like |-> id_like],
     host_names |-> host_names]

\* A Linux machine: /etc/os-release with ID and ID_LIKE, HOSTNAME set.
LocalMachine ==
    Machine(S_linux, S_x86_64, Some(<<"u", "b", "u", "n", "t", "u">>),
            Some(<<"d", "e", "b", "i", "a", "n", ",", " ", "g", "n", "u">>),
            <<Some(<<"M", "y", "_", "L", "a", "p", "t", "o", "p", "!">>), None, None, None>>)

InitToolSet ==
    LET F_Linux == <<" ", "L", "i", "n", "u", "x">>
        F_windows == <<"w", "i", "n", "d", "o", "w", "s">>
        F_debian == <<"l", "i", "n", "u", "x", "-", "d", "e", "b", "i", "a", "n">>
        H_Laptop == <<"M", "y", "-", "L", "a", "p", "t", "o", "p">>
        H_Mac == <<"M", "a", "c", "-", "l", "o", "c", "a", "l", " ">>
        ToolSpecPool ==
            { ToolSpecToml("github", None, Some(ChecksumOf("a")), FALSE, <<>>, <<>>),
              ToolSpecToml("github", Some(V_1), Some(ChecksumOf("B")), FALSE,
                           <<F_Linux>>, <<>>),
              ToolSpecToml("script", None, None, TRUE, <<S_darwin, F_debian>>, <<>>),
              ToolSpecToml("github", Some(V_2), None, FALSE, <<>>, <<H_Mac>>),
              ToolSpecToml("curl", None, None, FALSE, <<F_windows, S_linux>>,
                           <<H_Laptop>>) }
        \* The `tools` tables a manifest can hold: at most MaxTools names.
        ConfigPool ==
            UNION {[names -> ToolSpecPool] :
                      names \in {ns \in SUBSET {T_rg, T_fd, T_jq} :
                                    Cardinality(ns) <= MaxTools}}
        MachinePool ==
            { LocalMachine,
              Machine(S_linux, S_aarch64, None, None,
                      <<Some(<<" ", " ">>), None, None, None>>),
              Machine(S_macos, S_aarch64, None, None,
                      <<None, Some(<<"m", "a", "c", ".", "l", "o", "c", "a", "l">>),
                        None, None>>) }
    IN  /\ profile_config \in ConfigPool
        /\ workspace_config \in ConfigPool
        /\ machine \in MachinePool
        /\ entries = None
        /\ SelectIdle
        /\ BinaryIdle
        /\ RunIdle
        /\ PureIdle
        /\ ProfileIdle

\* ToolSet::load with both manifests read.
LoadToolSet ==
    /\ ~entries.some
    /\ entries' = Some(from_configs(ProfileSource, profile_config,
                                    WorkspaceSource, workspace_config, machine))
    /\ UNCHANGED <<profileVars, profile_config, workspace_config, machine, selectVars, binaryVars, pureVars, runVars>>

SpecToolSet == InitToolSet /\ [][LoadToolSet]_vars

(***************************************************************************)
(* Properties of the tool resolution.                                      *)
(***************************************************************************)
\* The entry of a manifest applies to the machine (filters compared the way
\* from_configs compares them).
Applies(config, n) ==
    /\ n \in DOMAIN config
    /\ applies_to(normalize_spec_filters(config[n]), platform_tags(machine), host_slug(machine))

OtherFields ==
    {"installer", "project", "version", "url", "shell", "bin", "extras",
     "asset_filter", "checksum", "app", "team_id", "self_update"}
FilterFields == {"platforms", "hosts"}

NormalizedFilters(fs) == [i \in 1..Len(fs) |-> to_ascii_lowercase(trim(fs[i]))]

\* The resolved definition d is the manifest entry spec under name n, with its
\* platform and host filters trimmed and lower-cased.
IsEntryOf(d, spec, n) ==
    /\ d.name = n
    /\ \A f \in OtherFields : d[f] = spec[f]
    /\ \A f \in FilterFields : d[f] = NormalizedFilters(spec[f])

\* C7 as stated: when a name is declared in both manifests and both entries
\* apply, the resolved definition equals the workspace entry in every field
\* and its source is the workspace config file.
C7_EqualsWorkspaceEntryInEveryField ==
    entries.some =>
        \A n \in DOMAIN profile_config \cap DOMAIN workspace_config :
            Applies(profile_config, n) /\ Applies(workspace_config, n) =>
                /\ n \in DOMAIN entries.v
                /\ entries.v[n].source = WorkspaceSource
                /\ entries.v[n].definition.name = n
                /\ \A f \in OtherFields \cup FilterFields :
                      entries.v[n].definition[f] = workspace_config[n][f]

\* C7: when a name is declared in both manifests and both entries apply, the
\* resolved definition is the workspace entry alone (every field other than the
\* filters equals the workspace entry's, the platform and host filters are the
\* workspace entry's trimmed and lower-cased, no field comes from the profile
\* entry) and its source is the workspace config file.
C7_WorkspaceEntryReplacesProfileEntry ==
    entries.some =>
        \A n \in DOMAIN profile_config \cap DOMAIN workspace_config :
            Applies(profile_config, n) /\ Applies(workspace_config, n) =>
                /\ n \in DOMAIN entries.v
                /\ entries.v[n].source = WorkspaceSource
                /\ IsEntryOf(entries.v[n].definition, workspace_config[n], n)

\* Both manifests declare rg, both entries apply, and they differ in a field
\* the workspace entry leaves unset.
C7_Witness ==
    /\ entries.some
    /\ T_rg \in DOMAIN profile_config \cap DOMAIN workspace_config
    /\ Applies(profile_config, T_rg) /\ Applies(workspace_config, T_rg)
    /\ profile_config[T_rg].version.some
    /\ ~workspace_config[T_rg].version.some
    /\ workspace_config[T_rg].platforms = <<>>
    /\ profile_config[T_rg].platforms # <<>>

\* C8: a workspace entry that does not apply to the machine leaves the result
\* for its name as the profile alone produces it: the profile's applying entry
\* with the profile file as source, or no entry if the profile has none that
\* applies.
C8_NonApplyingOverrideLeavesProfileResult ==
    entries.some =>
        \A n \in DOMAIN workspace_config :
            ~Applies(workspace_config, n) =>
                IF Applies(profile_config, n)
                THEN /\ n \in DOMAIN entries.v
                     /\ entries.v[n].source = ProfileSource
                     /\ IsEntryOf(entries.v[n].definition, profile_config[n], n)
                ELSE n \notin DOMAIN entries.v

\* The workspace entry for rg does not apply while the profile entry does.
C8_Witness ==
    /\ entries.some
    /\ T_rg \in DOMAIN workspace_config
    /\ ~Applies(workspace_config, T_rg)
    /\ Applies(profile_config, T_rg)
    /\ profile_config[T_rg] # workspace_config[T_rg]

(***************************************************************************)
(* Binary path resolution (installers/github.rs).  A path below the        *)
(* extraction root is the sequence of its components; a tree is the set of *)
(* the paths of its regular files, the directories being their prefixes.   *)
(***************************************************************************)
MaxFiles == 3

CurDir == <<".">>

\* Path::is_absolute (Unix)
is_absolute(source) == source # <<>> /\ source[1] = "/"

\* Path::components of a relative path: separators and repeated separators
\* vanish, `.` is kept only as the leading component.
components(source) ==
    LET parts == split_nonempty(source, {"/"}, <<>>)
        keep == {i \in 1..Len(parts) : parts[i] # CurDir \/ i = 1}
        nth(k) == CHOOSE i \in keep : Cardinality({j \in keep : j <= i}) = k
    IN  [k \in 1..Cardinality(keep) |-> parts[nth(k)]]

\* The place in the tree a path names: `.` components stay where they are.
Place(path) ==
    LET keep == {i \in 1..Len(path) : path[i] # CurDir}
        nth(k) == CHOOSE i \in keep : Cardinality({j \in keep : j <= i}) = k
    IN  [k \in 1..Cardinality(keep) |-> path[nth(k)]]

\* The extraction root itself is a directory of every tree.
is_dir(tree, path) ==
    \/ Place(path) = <<>>
    \/ \E f \in tree :
          Len(f) > Len(Place(path)) /\ SubSeq(f, 1, Len(Place(path))) = Place(path)

\* Path::exists of extract_root.join(path)
exists(tree, path) == Place(path) \in tree \/ is_dir(tree, path)

file_name(path) == path[Len(path)]

ResolveOk(path) == [status |-> "ok", err |-> "", path |-> path]
ResolveErr(e) == [status |-> "err", err |-> e, path |-> <<>>]

\* A variant of resolve_binary_path whose search takes the first file found.
resolve_binary_path_first_match(tree, source) ==
    LET relative == components(source)
    IN  IF is_absolute(source) THEN ResolveErr("MustBeRelative")
        ELSE IF exists(tree, relative) THEN ResolveOk(relative)
        ELSE IF Len(relative) = 1
        THEN LET matches == {f \in tree : file_name(f) = source}
             IN  IF matches = {} THEN ResolveErr("NotFound")
                 ELSE ResolveOk(CHOOSE f \in matches : TRUE)
        ELSE ResolveErr("NotFoundAtPath")

\* resolve_binary_path(extract_root, source); the result path is relative to
\* extract_root.
resolve_binary_path(tree, source) ==
    LET relative == components(source)
    IN  IF is_absolute(source) THEN ResolveErr("MustBeRelative")
        ELSE IF exists(tree, relative) THEN ResolveOk(relative)
        ELSE IF Len(relative) = 1
        THEN LET matches == {f \in tree : file_name(f) = source}
             IN  IF Cardinality(matches) = 1 THEN ResolveOk(CHOOSE f \in matches : TRUE)
                 ELSE IF matches = {} THEN ResolveErr("NotFound")
                 ELSE ResolveErr("MultipleMatches")
        ELSE ResolveErr("NotFoundAtPath")

S_exe == <<".", "e", "x", "e">>
D_bin == <<"b", "i", "n">>
D_doc == <<"d", "o", "c">>
N_readme == <<"R", "E", "A", "D", "M", "E">>

InitBinary ==
    LET T_rg_exe == T_rg \o S_exe
        FilePool ==
            { <<T_rg>>, <<D_bin, T_rg>>, <<D_doc, T_rg>>, <<D_bin, T_rg_exe>>,
              <<T_rg, T_rg>>, <<N_readme>> }
        \* No path of a tree is both a regular file and a directory.
        TreePool ==
            {t \in SUBSET FilePool :
                /\ Cardinality(t) <= MaxFiles
                /\ \A f \in t : ~is_dir(t, f)}
        SourcePool ==
            { T_rg, D_bin \o <<"/">> \o T_rg, <<".", "/">> \o T_rg, <<"/">> \o T_rg,
              T_fd, T_rg_exe, D_bin, <<>> }
    IN  /\ extract_tree \in TreePool
        /\ bin_source \in SourcePool
        /\ resolved = [status |-> "pending", err |-> "", path |-> <<>>]
        /\ SelectIdle
        /\ ToolSetIdle
        /\ RunIdle
        /\ PureIdle
        /\ ProfileIdle

\* resolve_binary_path(&extract_dir, &bin.source)
ResolveBinary ==
    /\ resolved.status = "pending"
    /\ resolved' = resolve_binary_path(extract_tree, bin_source)
    /\ UNCHANGED <<profileVars, extract_tree, bin_source, selectVars, toolsetVars, pureVars, runVars>>

SpecBinary == InitBinary /\ [][ResolveBinary]_vars

(***************************************************************************)
(* Properties of the binary path resolution.                               *)
(***************************************************************************)
\* The source is a bare name: one component, no separator.
BareName == bin_source # <<>> /\ "/" \notin Range(bin_source) /\ bin_source # CurDir

\* The files of the tree with the name, exactly or with the .exe suffix.
NamedOrExe(name) == {f \in extract_tree : file_name(f) \in {name, name \o S_exe}}
Named(name) == {f \in extract_tree : file_name(f) = name}

GoodBody == 10
BadBody == 11
Bodies == {GoodBody, BadBody}

GithubAsset(project, tag, name, size) ==
    [name |-> name, browser_download_url |-> project \o <<"/">> \o tag \o <<"/">> \o name,
     size |-> size, state |-> "uploaded"]

GithubRelease(project, tag) ==
    [tag_name |-> tag,
     assets |-> <<GithubAsset(project, tag, N_arm, 2), GithubAsset(project, tag, N_amd, 2)>>]

\* GithubApi::fetch_release: releases/latest, or releases/tags/{tag} (404 if absent)
fetch_release(project, tag, latest_tag) ==
    IF ~tag.some THEN [ok |-> TRUE, release |-> GithubRelease(project, latest_tag)]
    ELSE IF tag.v = V_1 \/ (tag.v = V_2 /\ latest_tag = V_2)    \* published
    THEN [ok |-> TRUE, release |-> GithubRelease(project, tag.v)]
    ELSE [ok |-> FALSE, release |-> [tag_name |-> <<>>, assets |-> <<>>]]

\* extract_archive: the files a verified archive unpacks to.
N_man == <<"r", "g", ".", "1">>
ArchiveTree(body) ==
    IF body = GoodBody
    THEN {<<D_bin, T_rg>>, <<D_bin, T_fd>>, <<D_doc, N_man>>, <<N_readme>>}
    ELSE {}

(***************************************************************************)
(* Installer dispatch (installers/mod.rs).                                 *)
(***************************************************************************)
S_contents == <<"c", "o", "n", "t", "e", "n", "t", "s">>

\* A variant of the sanitizer that writes one dash for a run of other characters.
sanitize_component_collapsing(value) ==
    LET kept(i) == is_ascii_alphanumeric(value[i]) \/ value[i] \in {".", "-", "_"}
        at == {i \in 1..Len(value) : kept(i) \/ i = 1 \/ kept(i - 1)}
        nth(k) == CHOOSE i \in at : Cardinality({j \in at : j <= i}) = k
        result == [k \in 1..Cardinality(at) |-> IF kept(nth(k)) THEN value[nth(k)] ELSE "-"]
    IN  IF trim_matches(result, "-") = <<>> THEN <<"d", "e", "f", "a", "u", "l", "t">>
        ELSE result

\* sanitize_component(value: &str) -> String
sanitize_component(value) ==
    LET result == [i \in 1..Len(value) |->
                      IF is_ascii_alphanumeric(value[i]) \/ value[i] \in {".", "-", "_"}
                      THEN value[i] ELSE "-"]
    IN  IF trim_matches(result, "-") = <<>> THEN <<"d", "e", "f", "a", "u", "l", "t">>
        ELSE result

\* version_dir of GithubInstaller::install, as its components below
\* cache_tools_dir: cache_tools_dir.join(&tool_slug).join(&version_slug)
version_dir(name, tag) == <<sanitize_component(name), sanitize_component(tag)>>
S_tools == <<"t", "o", "o", "l", "s">>

NoInstaller ==
    [name |-> <<>>, project |-> <<>>, version |-> None, bins |-> <<>>, extras |-> <<>>,
     asset_filters |-> <<>>, checksum |-> <<>>]

\* GithubInstaller::new: [ok, err, installer]
GithubInstaller_new(def) ==
    IF ~def.project.some
    THEN [ok |-> FALSE, err |-> "MissingProject", installer |-> NoInstaller]
    ELSE IF ~def.checksum.some
    THEN [ok |-> FALSE, err |-> "MissingChecksum", installer |-> NoInstaller]
    ELSE LET checksum == parse_sha256(def.checksum.v)
         IN  IF ~checksum.ok
             THEN [ok |-> FALSE, err |-> "InvalidChecksum", installer |-> NoInstaller]
             ELSE IF def.asset_filter = <<>>
             THEN [ok |-> FALSE, err |-> "NoAssetFilter", installer |-> NoInstaller]
             ELSE [ok |-> TRUE, err |-> "",
                   installer |-> [name |-> def.name, project |-> def.project.v,
                                  version |-> def.version, bins |-> def.bin,
                                  extras |-> def.extras,
                                  asset_filters |-> def.asset_filter,
                                  checksum |-> checksum.bytes]]

\* A variant in which an installer kind without a backend is an error.
create_installer_rejecting_unsupported(def) ==
    IF def.installer = "github"
    THEN LET r == GithubInstaller_new(def)
         IN  [ok |-> r.ok, err |-> r.err, some |-> r.ok,
              dispatch |-> [installer |-> r.installer,
                            resolved_version |-> r.installer.version]]
    ELSE [ok |-> FALSE, err |-> "UnsupportedInstaller", some |-> FALSE,
          dispatch |-> [installer |-> NoInstaller, resolved_version |-> None]]

\* create_installer: [ok, err, some, dispatch]; some = FALSE is Ok(None)
create_installer(def) ==
    IF def.installer = "github"
    THEN LET r == GithubInstaller_new(def)
         IN  [ok |-> r.ok, err |-> r.err, some |-> r.ok,
              dispatch |-> [installer |-> r.installer,
                            resolved_version |-> r.installer.version]]
    ELSE [ok |-> TRUE, err |-> "", some |-> FALSE,
          dispatch |-> [installer |-> NoInstaller, resolved_version |-> None]]

(***************************************************************************)
(* Lockfile (lockfile.rs).                                                 *)
(***************************************************************************)
Lockfile_new(t) ==
    [version |-> 2, metadata |-> [installed_at |-> t],
     config_symlinks |-> <<>>, tool_receipts |-> <<>>]

add_config_symlink(lf, source, target) ==
    [lf EXCEPT !.config_symlinks = Append(@, [source |-> source, target |-> target])]

BinaryLink(link, source, target) == [link |-> link, source |-> source, target |-> target]
ExtraLink(kind, source, target) == [kind |-> kind, source |-> source, target |-> target]

AssetRecord(name, url, checksum, archive_path, extract_dir, pattern_index, pattern) ==
    [name |-> name, url |-> url, checksum |-> checksum, archive_path |-> archive_path,
     extract_dir |-> extract_dir, pattern_index |-> pattern_index, pattern |-> pattern]

\* Lockfile::record_tool_install at time t
record_tool_install(lf, name, manifest_version, resolved_version, installer_kind, binaries, extras, asset, t) ==
    [lf EXCEPT !.tool_receipts =
        Append(@, [name |-> name, manifest_version |-> manifest_version,
                   resolved_version |-> resolved_version,
                   installer_kind |-> installer_kind, installed_at |-> t,
                   binaries |-> binaries, extras |-> extras, asset |-> asset])]

RECURSIVE Flatten(_)
Flatten(seqs) == IF seqs = <<>> THEN <<>> ELSE Head(seqs) \o Flatten(Tail(seqs))

\* Lockfile::tool_symlinks: one entry per symlink of every receipt, its binaries
\* and then its extras; dir is the directory the target path lies in.
tool_symlinks(lf) ==
    Flatten([i \in 1..Len(lf.tool_receipts) |->
        LET r == lf.tool_receipts[i]
        IN  [j \in 1..Len(r.binaries) |->
                [name |-> r.name, version |-> r.resolved_version, dir |-> "bin",
                 source |-> r.binaries[j].source, target |-> r.binaries[j].target]]
            \o [j \in 1..Len(r.extras) |->
                [name |-> r.name, version |-> r.resolved_version, dir |-> "share",
                 source |-> r.extras[j].source, target |-> r.extras[j].target]]])

\* Lockfile::retain_tool_symlinks(|entry| entry.name != name)
retain_tool_symlinks(lf, name) ==
    [lf EXCEPT !.tool_receipts = SelectSeq(@, LAMBDA r : r.name # name)]

\* A byte of a path component that is not UTF-8 text.
RawByte == "\\xFF"

\* Path::to_str, as the Serialize impl of a path calls it: the path as text, or
\* nothing when a component is not valid UTF-8.
to_str(path) ==
    IF \E i \in 1..Len(path) : \E j \in 1..Len(path[i]) : path[i][j] = RawByte
    THEN None ELSE Some(path)

\* Lockfile::save, [ok, file]: toml::to_string_pretty of the value, then fs::write.
\* The document is a TOML table: an Option that is None has no key, a path is
\* written as text, and a path that is not text fails the serialization.
Lockfile_save(lf) ==
    LET links(r) == Range(r.binaries) \cup Range(r.extras)
        paths == UNION {{c.source, c.target} : c \in Range(lf.config_symlinks)}
                 \cup UNION {UNION {{l.source, <<l.target>>} : l \in Range(r.binaries)}
                                \cup UNION {{l.source, l.target} : l \in Range(r.extras)}
                                \cup (IF r.asset.some
                                      THEN {r.asset.v.archive_path, r.asset.v.extract_dir}
                                      ELSE {}) : r \in Range(lf.tool_receipts)}
        asset_table(a) ==
            [name |-> a.name, url |-> a.url, checksum |-> a.checksum,
             archive_path |-> a.archive_path, extract_dir |-> a.extract_dir]
            @@ (IF a.pattern_index.some THEN "pattern_index" :> a.pattern_index.v ELSE <<>>)
            @@ (IF a.pattern.some THEN "pattern" :> a.pattern.v ELSE <<>>)
        receipt_table(r) ==
            [name |-> r.name, manifest_version |-> r.manifest_version,
             resolved_version |-> r.resolved_version, installer_kind |-> r.installer_kind,
             installed_at |-> r.installed_at, binaries |-> r.binaries, extras |-> r.extras]
            @@ (IF r.asset.some THEN "asset" :> asset_table(r.asset.v) ELSE <<>>)
    IN  [ok |-> \A path \in paths : to_str(path).some,
         file |-> [exists |-> TRUE,
                   document |->
                      [version |-> lf.version, metadata |-> lf.metadata,
                       config_symlinks |-> lf.config_symlinks,
                       tool_receipts |-> [i \in 1..Len(lf.tool_receipts) |->
                                             receipt_table(lf.tool_receipts[i])]]]]

\* A variant of the load whose receipt has no asset field: the key is skipped.
Lockfile_load_without_asset(file) ==
    [version |-> file.document.version, metadata |-> file.document.metadata,
     config_symlinks |-> file.document.config_symlinks,
     tool_receipts |-> [i \in 1..Len(file.document.tool_receipts) |->
                           LET t == file.document.tool_receipts[i]
                           IN  [name |-> t.name, manifest_version |-> t.manifest_version,
                                resolved_version |-> t.resolved_version,
                                installer_kind |-> t.installer_kind,
                                installed_at |-> t.installed_at, binaries |-> t.binaries,
                                extras |-> t.extras, asset |-> None]]]

\* Lockfile::load: toml::from_str of the file; an absent key of an Option is None,
\* an absent array (#[serde(default)]) is empty.
Lockfile_load(file) ==
    LET array(t, key) == IF key \in DOMAIN t THEN t[key] ELSE <<>>
        option(t, key) == IF key \in DOMAIN t THEN Some(t[key]) ELSE None
        asset_of(t) ==
            [name |-> t.name, url |-> t.url, checksum |-> t.checksum,
             archive_path |-> t.archive_path, extract_dir |-> t.extract_dir,
             pattern_index |-> option(t, "pattern_index"), pattern |-> option(t, "pattern")]
        receipt_of(t) ==
            [name |-> t.name, manifest_version |-> t.manifest_version,
             resolved_version |-> t.resolved_version, installer_kind |-> t.installer_kind,
             installed_at |-> t.installed_at, binaries |-> array(t, "binaries"),
             extras |-> array(t, "extras"),
             asset |-> IF "asset" \in DOMAIN t THEN Some(asset_of(t.asset)) ELSE None]
        doc == file.document
    IN  [version |-> doc.version, metadata |-> doc.metadata,
         config_symlinks |-> array(doc, "config_symlinks"),
         tool_receipts |-> [i \in 1..Len(array(doc, "tool_receipts")) |->
                               receipt_of(doc.tool_receipts[i])]]
\* No dws.lock on disk.
NoLockfile ==
    [exists |-> FALSE,
     document |-> [version |-> 0, metadata |-> [installed_at |-> 0],
                   config_symlinks |-> <<>>, tool_receipts |-> <<>>]]

(***************************************************************************)
(* Manifest validation (toolset.rs).                                       *)
(***************************************************************************)
\* A variant of the format test that does not count the hex characters.
is_valid_checksum_any_length(value) ==
    LET trimmed == trim(value)
        rest == SubSeq(trimmed, Len(S_sha256) + 1, Len(trimmed))
    IN  /\ Len(trimmed) >= Len(S_sha256)
        /\ SubSeq(trimmed, 1, Len(S_sha256)) = S_sha256
        /\ \A i \in 1..Len(rest) : rest[i] \in HexDigits

\* is_valid_checksum(value: &str) -> bool
is_valid_checksum(value) ==
    LET trimmed == trim(value)
        rest == SubSeq(trimmed, Len(S_sha256) + 1, Len(trimmed))
    IN  /\ Len(trimmed) >= Len(S_sha256)                    \* strip_prefix
        /\ SubSeq(trimmed, 1, Len(S_sha256)) = S_sha256
        /\ Len(rest) = HexLen
        /\ \A i \in 1..Len(rest) : rest[i] \in HexDigits

\* ToolSpecToml::validate(&self, name, source) -> Vec<ManifestIssue>: the
\* messages of the issues, in the order the code pushes them.
validate(spec) ==
    LET issue(found, message) == IF found THEN <<message>> ELSE <<>>
        \* .as_deref().map(|value| value.trim().is_empty()).unwrap_or(true)
        blank(option) == ~option.some \/ trim(option.v) = <<>>
        empty(option) == option.some /\ trim(option.v) = <<>>
        checksum_required == spec.installer \in {"github", "gitlab", "script"}
        of_installer ==
            IF spec.installer \in {"github", "gitlab"}
            THEN issue(blank(spec.project), "field project is required for release installers")
                 \o issue(spec.asset_filter = <<>>,
                          "at least one asset_filter regex must be defined")
            ELSE IF spec.installer = "script"
            THEN issue(blank(spec.url), "field url is required for script installers")
                 \o issue(blank(spec.shell), "field shell is required for script installers")
            ELSE <<>>
        of_checksum ==
            IF spec.checksum.some /\ trim(spec.checksum.v) # <<>>
            THEN issue(~is_valid_checksum(spec.checksum.v),
                       "checksum must be formatted as sha256:<64 hex characters>")
            ELSE IF spec.checksum.some THEN <<"checksum must not be empty">>
            ELSE issue(checksum_required, "checksum is required for this installer")
        of_filters ==
            Flatten([i \in 1..Len(spec.asset_filter) |->
                        issue(~Regex_new(spec.asset_filter[i]), "invalid asset_filter regex")])
        of_bins ==
            issue(spec.bin = <<>>, "declare at least one [[tools.<name>.bin]] entry")
            \o Flatten([i \in 1..Len(spec.bin) |->
                           issue(trim(spec.bin[i].source) = <<>>,
                                 "bin entry must specify a non-empty source")
                           \o issue(empty(spec.bin[i].link),
                                    "bin entry has an empty link value")])
        of_extras ==
            Flatten([i \in 1..Len(spec.extras) |->
                        issue(trim(spec.extras[i].source) = <<>>,
                              "extras entry must specify a non-empty source")
                        \o issue(empty(spec.extras[i].target),
                                 "extras entry has an empty target value")
                        \o issue(spec.extras[i].kind = "completion"
                                    /\ blank(spec.extras[i].shell),
                                 "extras entry of kind completion requires a shell value")])
    IN  of_installer \o of_checksum \o of_filters \o of_bins \o of_extras

(***************************************************************************)
(* Extra targets (installers/github.rs).                                   *)
(***************************************************************************)
\* Path::extension of a file name: what follows the last `.`, if the name has
\* one that is not its first character.
extension(name) ==
    LET dots == {i \in 2..Len(name) : name[i] = "."}
    IN  IF dots = {} THEN None
        ELSE Some(SubSeq(name, (CHOOSE i \in dots : \A j \in dots : i >= j) + 1, Len(name)))

\* A variant that files every page under section 1.
manpage_target_section_one(resolved_source) ==
    LET S_man == <<"m", "a", "n">>
    IN  <<S_man, S_man \o <<"1">>, file_name(resolved_source)>>

manpage_target(resolved_source) ==
    LET S_man == <<"m", "a", "n">>
        ext == extension(file_name(resolved_source))
        section == IF ext.some /\ ext.v # <<>> THEN ext.v ELSE <<"1">>
    IN  <<S_man, S_man \o section, file_name(resolved_source)>>

completion_dir(shell) ==
    CASE shell = <<"z", "s", "h">> -> Some(<<shell, <<"s", "i", "t", "e", "-", "f", "u", "n", "c", "t", "i", "o", "n", "s">> >>)
      [] shell = <<"b", "a", "s", "h">> -> Some(<< <<"b", "a", "s", "h", "-", "c", "o", "m", "p", "l", "e", "t", "i", "o", "n", "s">> >>)
      [] shell = <<"f", "i", "s", "h">> -> Some(<<shell, <<"v", "e", "n", "d", "o", "r", "_", "c", "o", "m", "p", "l", "e", "t", "i", "o", "n", "s", ".", "d">> >>)
      [] OTHER -> None

\* resolve_extra_target: [ok, path]; the path is relative to the share directory
\* unless the manifest gives an explicit (or absolute) target.
resolve_extra_target(tool_slug, extra, resolved_source) ==
    IF extra.target.some THEN [ok |-> TRUE, path |-> <<extra.target.v>>]
    ELSE IF extra.kind = "man" THEN [ok |-> TRUE, path |-> manpage_target(resolved_source)]
    ELSE IF extra.kind = "completion"
    THEN IF ~extra.shell.some THEN [ok |-> FALSE, path |-> <<>>]
         ELSE LET dir == completion_dir(to_ascii_lowercase(extra.shell.v))
              IN  IF dir.some
                  THEN [ok |-> TRUE, path |-> Append(dir.v, file_name(resolved_source))]
                  ELSE [ok |-> FALSE, path |-> <<>>]
    ELSE IF is_absolute(extra.source) THEN [ok |-> TRUE, path |-> <<extra.source>>]
    ELSE [ok |-> TRUE,
          path |-> << <<"e", "x", "t", "r", "a", "s">>, tool_slug>> \o components(extra.source)]

\* The body of the loop over the extras of GithubInstaller::install up to the
\* symlink: resolve_extra_path in the extracted tree, then resolve_extra_target.
\* [source, target]
resolve_extra(tree, tool, extra) ==
    LET r == resolve_binary_path(tree, extra.source)
        resolved_source == <<S_contents>> \o r.path
    IN  [source |-> r,
         target |-> IF r.status = "ok"
                    THEN resolve_extra_target(sanitize_component(tool), extra, resolved_source)
                    ELSE [ok |-> FALSE, path |-> <<>>]]

(***************************************************************************)
(* download_asset (installers/github.rs): the response body arrives in     *)
(* chunks and is written to a temporary file beside the destination.       *)
(***************************************************************************)
MaxChunks == 2

\* Path::with_extension of a file name: the extension of the name, if it has
\* one, is replaced; otherwise the new one is added.
with_extension(name, ext) ==
    LET old == extension(name)
        stem == IF old.some THEN SubSeq(name, 1, Len(name) - Len(old.v) - 1) ELSE name
    IN  stem \o <<".">> \o ext

\* dest.with_extension("download")
temp_path(dest) == with_extension(dest, <<"d", "o", "w", "n", "l", "o", "a", "d">>)

\* File::create: the file is there and empty
File_create(files, name) ==
    [n \in DOMAIN files \cup {name} |-> IF n = name THEN <<>> ELSE files[n]]

\* fs::rename(from, to): `to` is replaced by the file at `from`
rename(files, from, to) ==
    [n \in (DOMAIN files \ {from}) \cup {to} |-> IF n = to THEN files[from] ELSE files[n]]

\* The state of a download_asset call after its next step.  d: [pc, files,
\* read]; response: [status, body, fails_at], the stream failing before chunk
\* number fails_at (0: it does not fail).
download_asset_step(d, dest, response) ==
    IF d.pc = "send"
    THEN IF response.status # 200 THEN [d EXCEPT !.pc = "err"]
         ELSE [d EXCEPT !.pc = "read", !.files = File_create(d.files, temp_path(dest))]
    ELSE IF response.fails_at = d.read + 1 THEN [d EXCEPT !.pc = "err"]
    ELSE IF d.read < Len(response.body)
    THEN [d EXCEPT !.read = @ + 1,
                   !.files[temp_path(dest)] = Append(@, response.body[d.read + 1])]
    ELSE [d EXCEPT !.pc = "ok", !.files = rename(d.files, temp_path(dest), dest)]

(***************************************************************************)
(* Single calls of the functions of the program: a call is drawn by Init,  *)
(* the action of the function answers it.                                  *)
(***************************************************************************)
MaxChars == 3
MaxWords == 2

(***************************************************************************)
(* The link primitive (config.rs, installers/mod.rs) on a directory whose  *)
(* entries are regular files, directories and symlinks: a symlink whose    *)
(* source is not an entry, or leads back to itself, is broken.             *)
(***************************************************************************)
RECURSIVE follow(_, _, _)
follow(fs, path, hops) ==
    IF path \notin DOMAIN fs THEN FALSE
    ELSE IF fs[path].kind # "symlink" THEN TRUE
    ELSE IF hops = 0 THEN FALSE
    ELSE follow(fs, fs[path].source, hops - 1)

\* Path::exists: follows symlinks
Path_exists(fs, path) == follow(fs, path, Cardinality(DOMAIN fs))
\* Path::symlink_metadata().is_ok(): does not follow them
symlink_metadata_is_ok(fs, path) == path \in DOMAIN fs

\* fs::remove_file fails on a directory; std::os::unix::fs::symlink fails when
\* the target is occupied.  [ok, fs]
fs_remove_file(fs, path) ==
    IF path \notin DOMAIN fs \/ fs[path].kind = "dir" THEN [ok |-> FALSE, fs |-> fs]
    ELSE [ok |-> TRUE, fs |-> [k \in DOMAIN fs \ {path} |-> fs[k]]]
symlink(fs, source, target) ==
    IF target \in DOMAIN fs THEN [ok |-> FALSE, fs |-> fs]
    ELSE [ok |-> TRUE, fs |-> (target :> [kind |-> "symlink", source |-> source]) @@ fs]

\* A variant that looks for an occupant with Path::exists alone.
ConfigEntry_install_if_exists(fs, source, target) ==
    LET removed == IF Path_exists(fs, target) THEN fs_remove_file(fs, target)
                   ELSE [ok |-> TRUE, fs |-> fs]
    IN  IF ~removed.ok THEN [ok |-> FALSE, fs |-> fs]
        ELSE symlink(removed.fs, source, target)

\* ConfigEntry::install, and the same lines of GithubInstaller::install for a
\* binary: remove what occupies the target, then symlink.  [ok, fs]
ConfigEntry_install(fs, source, target) ==
    LET removed == IF Path_exists(fs, target) \/ symlink_metadata_is_ok(fs, target)
                   THEN fs_remove_file(fs, target)
                   ELSE [ok |-> TRUE, fs |-> fs]
    IN  IF ~removed.ok THEN [ok |-> FALSE, fs |-> fs]
        ELSE symlink(removed.fs, source, target)

InitPure ==
    LET N_zshrc == <<".", "z", "s", "h", "r", "c">>
        N_vimrc == <<".", "v", "i", "m", "r", "c">>
        V_14 == <<"1", "4">>
        Raw == <<"h", RawByte>>
        c1 == [source |-> <<<<"c", "f", "g">>, N_zshrc>>, target |-> <<N_zshrc>>]
        c2 == [source |-> <<<<"c", "f", "g">>, N_vimrc>>, target |-> <<N_vimrc>>]
        c_raw == [source |-> <<Raw, N_zshrc>>, target |-> <<N_zshrc>>]
        asset(pattern_index, pattern) ==
            AssetRecord(T_rg, <<"u">>, <<"s", "h", "a", "2", "5", "6", ":", "0">>,
                        <<T_rg, V_14, T_rg>>, <<T_rg, V_14, S_contents>>,
                        pattern_index, pattern)
        receipt(name, binaries, extras, a) ==
            [name |-> name, manifest_version |-> <<"l", "a", "t", "e", "s", "t">>,
             resolved_version |-> V_14, installer_kind |-> "github", installed_at |-> 1,
             binaries |-> binaries, extras |-> extras, asset |-> a]
        b(name) == BinaryLink(name, <<name, V_14, S_contents, name>>, name)
        x(name) == ExtraLink("man", <<name, V_14, S_contents, D_doc>>, <<D_doc, name>>)
        r1 == receipt(T_rg, <<b(T_rg)>>, <<>>, Some(asset(Some(0), Some(<<"*">>))))
        r2 == receipt(T_fd, <<b(T_fd), b(T_jq)>>, <<x(T_fd)>>, None)
        r3 == receipt(T_jq, <<>>, <<x(T_jq), x(T_rg)>>, Some(asset(None, None)))
        r_raw == receipt(T_fd, <<BinaryLink(T_fd, <<Raw, T_fd>>, T_fd)>>, <<>>, None)
        ConfigPool == {<<>>, <<c1>>, <<c1, c2>>, <<c2, c1>>, <<c_raw>>}
        ReceiptPool == {<<>>, <<r1>>, <<r2>>, <<r3>>, <<r1, r2>>, <<r2, r1>>,
                        <<r1, r2, r3>>, <<r_raw>>, <<r1, r_raw>>}
        LockfilePool ==
            {[version |-> 2, metadata |-> [installed_at |-> 1], config_symlinks |-> c,
              tool_receipts |-> r] : c \in ConfigPool, r \in ReceiptPool}
        Older == Lockfile_save([Lockfile_new(0) EXCEPT !.tool_receipts = <<r2>>]).file
        Chars == {"a", "Z", "0", ".", "-", "_", " ", "/"}
        StringPool == UNION {[1..n -> Chars] : n \in 0..MaxChars}
        SlugPool == {value \in StringPool : Len(value) < MaxChars}
        Hex(ch, n) == [i \in 1..n |-> ch]
        ChecksumPool ==
            {None, Some(<<>>), Some(<<" ">>), Some(ChecksumOf("a")), Some(ChecksumOf("B")),
             Some(<<" ">> \o ChecksumOf("0") \o <<" ">>), Some(S_sha256),
             Some(S_sha256 \o Hex("a", HexLen - 1)), Some(S_sha256 \o Hex("a", HexLen + 1)),
             Some(S_sha256 \o Hex("a", HexLen - 1) \o <<"g">>), Some(Hex("a", HexLen)),
             Some(<<"S", "H", "A", "2", "5", "6", ":">> \o Hex("a", HexLen))}
        man == [source |-> D_doc \o <<"/">> \o N_man, kind |-> "man", shell |-> None,
                target |-> None]
        completion == [man EXCEPT !.kind = "completion", !.target = Some(<<" ">>)]
        SpecPool ==
            {[ToolSpecToml(installer, None, checksum, FALSE, <<>>, <<>>)
                 EXCEPT !.bin = bin, !.extras = extras] :
                installer \in {"dmg", "flatpak", "curl", "github", "gitlab", "script"},
                checksum \in ChecksumPool,
                bin \in {<<>>, <<ToolBinary(T_rg, None), ToolBinary(<<" ">>, Some(<<>>))>>},
                extras \in {<<>>, <<man, completion>>}}
        WordPool == {<<"X", "8", "6", "_", "6", "4">>, <<"A", "M", "D", "6", "4">>,
                     <<"a", "r", "m", "6", "4">>, <<"A", "a", "r", "c", "h", "6", "4">>,
                     <<"L", "i", "n", "u", "x">>, <<"a", "p", "p", "l", "e">>,
                     <<"D", "a", "r", "w", "i", "n">>, <<"m", "a", "c", "O", "S">>}
        SuffixPool == {<<>>, <<".", "t", "a", "r", ".", "g", "z">>,
                       <<".", "t", "a", "r", ".", "x", "z">>, <<".", "t", "g", "z">>,
                       <<".", "z", "i", "p">>, <<".", "t", "a", "r">>,
                       <<".", "Z", "I", "P">>, <<".", "t", "a", "r", ".", "b", "z">>}
        NamePool == {<<"t">> \o Flatten(words) \o suffix :
                        words \in SeqsUpTo(WordPool, MaxWords), suffix \in SuffixPool}
        PathPool == {T_rg, T_fd, T_jq}
        EntryPool == {[kind |-> "file", source |-> <<>>], [kind |-> "dir", source |-> <<>>]}
                     \cup [kind : {"symlink"}, source : PathPool]
        FsPool == UNION {[names -> EntryPool] : names \in SUBSET {T_rg, T_fd}}
        N_fd5 == <<"f", "d", ".", "5">>
        N_dot == <<"r", "g", ".">>
        N_hidden == <<".", "r", "g">>
        N_comp == <<"_", "r", "g">>
        ExtraTree == {<<D_doc, N_man>>, <<D_doc, N_fd5>>, <<N_comp>>, <<T_rg>>, <<N_dot>>,
                      <<N_hidden>>}
        ExtraPool ==
            [source : {D_doc \o <<"/">> \o N_man, N_fd5, N_comp, T_rg, N_dot, N_hidden,
                       <<"/">> \o T_rg, T_jq},
             kind : {"man", "completion", "other"},
             shell : {None, Some(<<"z", "s", "h">>), Some(<<"Z", "s", "h">>),
                      Some(<<"b", "a", "s", "h">>), Some(<<"f", "i", "s", "h">>),
                      Some(<<"p", "w", "s", "h">>)},
             target : {None, Some(<<"/", "t">>)}]
        N_download == T_rg \o <<".", "d", "o", "w", "n", "l", "o", "a", "d">>
        BodyPool == UNION {[1..n -> {"x", "y"}] : n \in 1..MaxChunks}
        ResponsePool == [status : {200, 404}, body : BodyPool, fails_at : 0..MaxChunks]
        \* what an earlier call that failed has left beside the destination,
        \* which is not there when download_asset is called
        LeftoverPool(dest) ==
            {files \in {<<>>, (temp_path(dest) :> <<"y">>)} : dest \notin DOMAIN files}
        RankPool == {[name |-> name, browser_download_url |-> name, size |-> 1,
                      state |-> state] :
                        name \in NamePool,
                        state \in {"uploaded", "available", "new", "none"}}
    IN  /\ call \in [op : {"save"}, lf : LockfilePool]
                    \cup [op : {"sanitize_component"}, value : StringPool]
                    \cup [op : {"version_dir"}, name : SlugPool, tag : SlugPool]
                    \cup [op : {"rank"}, asset : RankPool]
                    \cup [op : {"link"}, fs : FsPool, source : PathPool,
                          target : {T_rg, T_fd}]
                    \cup [op : {"validate"}, spec : SpecPool]
                    \cup [op : {"extra"}, tree : {ExtraTree}, tool : {T_rg, <<"r", " ", "g">>},
                          extra : ExtraPool]
                    \cup UNION {[op : {"download"}, dest : {dest}, response : ResponsePool,
                                 files : LeftoverPool(dest)] :
                                   dest \in {N_amd, T_rg, N_download}}
        /\ returned = <<>>
        /\ suspended = <<>>
        /\ lock_disk \in IF call.op = "save" THEN {NoLockfile, Older} ELSE {NoLockfile}
        /\ SelectIdle /\ ToolSetIdle /\ BinaryIdle /\ ProfileIdle
        /\ latest = <<>> /\ now = 0 /\ bin_dir = <<>> /\ share_dir = <<>>
        /\ config_dir = <<>> /\ cache = <<>> /\ dirs = {} /\ run = <<>>
        /\ lockfile = <<>> /\ tasks = <<>> /\ attempt = <<>> /\ outcome = <<>>
        /\ before = <<>>

\* lockfile.save(&path): the file is written when the value serializes.
SaveLockfile ==
    /\ call.op = "save" /\ DOMAIN returned = {}
    /\ LET saved == Lockfile_save(call.lf)
       IN  /\ lock_disk' = IF saved.ok THEN saved.file ELSE lock_disk
           /\ returned' = [saved |-> saved.ok, on_disk |-> lock_disk, loaded |-> None]
    /\ UNCHANGED <<profileVars, selectVars, toolsetVars, binaryVars, call, suspended, latest, now, bin_dir, share_dir,
                   config_dir, cache, dirs, run, lockfile, tasks, attempt, outcome, before>>

\* Lockfile::load(&path) of the file just saved.
LoadLockfile ==
    /\ call.op = "save" /\ DOMAIN returned # {}
    /\ returned.saved /\ ~returned.loaded.some
    /\ returned' = [returned EXCEPT !.loaded = Some(Lockfile_load(lock_disk))]
    /\ UNCHANGED <<profileVars, selectVars, toolsetVars, binaryVars, call, suspended, runVars>>

\* tool_slug, version_slug and version_dir of GithubInstaller::install
VersionDir ==
    /\ call.op = "version_dir" /\ DOMAIN returned = {}
    /\ returned' = [dir |-> version_dir(call.name, call.tag)]
    /\ UNCHANGED <<profileVars, selectVars, toolsetVars, binaryVars, runVars, call, suspended>>

\* sanitize_component(value)
SanitizeComponent ==
    /\ call.op = "sanitize_component" /\ DOMAIN returned = {}
    /\ returned' = [value |-> sanitize_component(call.value)]
    /\ UNCHANGED <<profileVars, selectVars, toolsetVars, binaryVars, call, suspended, runVars>>

\* AssetRank::new(asset)
RankAsset ==
    /\ call.op = "rank" /\ DOMAIN returned = {}
    /\ returned' = [rank |-> AssetRank(call.asset)]
    /\ UNCHANGED <<profileVars, selectVars, toolsetVars, binaryVars, call, suspended, runVars>>

\* entry.install(), and entry.install() once more on what the first call left
InstallEntry ==
    /\ call.op = "link"
    /\ \/ /\ DOMAIN returned = {}
          /\ returned' = [first |-> ConfigEntry_install(call.fs, call.source, call.target)]
       \/ /\ DOMAIN returned = {"first"}
          /\ returned' = [first |-> returned.first,
                          second |-> ConfigEntry_install(returned.first.fs, call.source,
                                                         call.target)]
    /\ UNCHANGED <<profileVars, selectVars, toolsetVars, binaryVars, call, suspended, runVars>>

\* spec.validate(name, source)
Validate ==
    /\ call.op = "validate" /\ DOMAIN returned = {}
    /\ returned' = [issues |-> validate(call.spec)]
    /\ UNCHANGED <<profileVars, selectVars, toolsetVars, binaryVars, call, suspended, runVars>>

\* one extra of a tool, resolved against the extracted tree
ResolveExtra ==
    /\ call.op = "extra" /\ DOMAIN returned = {}
    /\ returned' = resolve_extra(call.tree, call.tool, call.extra)
    /\ UNCHANGED <<profileVars, selectVars, toolsetVars, binaryVars, call, suspended, runVars>>

\* download_asset(url, dest), one step at a time: the request, each chunk
\* read and written, the rename
DownloadAssetBody ==
    /\ call.op = "download"
    /\ \/ /\ DOMAIN returned = {}
          /\ returned' = download_asset_step([pc |-> "send", files |-> call.files, read |-> 0],
                                             call.dest, call.response)
       \/ /\ DOMAIN returned # {}
          /\ returned.pc = "read"
          /\ returned' = download_asset_step(returned, call.dest, call.response)
    /\ UNCHANGED <<profileVars, selectVars, toolsetVars, binaryVars, call, suspended, runVars>>

NextPure ==
    \/ VersionDir
    \/ DownloadAssetBody
    \/ ResolveExtra
    \/ SaveLockfile
    \/ LoadLockfile
    \/ SanitizeComponent
    \/ RankAsset
    \/ InstallEntry
    \/ Validate

SpecPure == InitPure /\ [][NextPure]_vars

(***************************************************************************)
(* Directories of symlinks, and the pruning of the workspace (workspace.rs)*)
(***************************************************************************)
\* fs::remove_file when something occupies the target
remove_file(dir, target) == [k \in DOMAIN dir \ {target} |-> dir[k]]

\* The link primitive: remove whatever occupies the target, then symlink.
create_symlink(dir, source, target) ==
    [k \in DOMAIN dir \cup {target} |-> IF k = target THEN [kind |-> "symlink", source |-> source] ELSE dir[k]]

RemoveAll(dir, targets) == [k \in DOMAIN dir \ targets |-> dir[k]]

\* remove_tool_symlink_entries, on farm = [bin, share]
remove_tool_symlink_entries(farm, tool_entries) ==
    [bin |-> RemoveAll(farm.bin, {e.target : e \in {x \in Range(tool_entries) : x.dir = "bin"}}),
     share |-> RemoveAll(farm.share,
                         {e.target : e \in {x \in Range(tool_entries) : x.dir = "share"}})]

\* A variant that removes every entry the lockfile does not record.
prune_unused_bin_any_kind(bin, lf) ==
    LET valid == {e.target : e \in {x \in Range(tool_symlinks(lf)) : x.dir = "bin"}}
    IN  [k \in {k \in DOMAIN bin : k \in valid} |-> bin[k]]

\* prune_unused_bin
prune_unused_bin(bin, lf) ==
    LET valid == {e.target : e \in {x \in Range(tool_symlinks(lf)) : x.dir = "bin"}}
    IN  [k \in {k \in DOMAIN bin : k \in valid \/ bin[k].kind # "symlink"} |-> bin[k]]

\* A variant that removes the unused version directories and leaves the tool
\* directories in place.
prune_unused_cache_versions_only(c, lf) ==
    LET in_use == UNION {{SubSeq(e.source, 1, n) : n \in 0..(Len(e.source) - 1)} :
                            e \in Range(tool_symlinks(lf))}
    IN  [d \in {d \in DOMAIN c : Len(d) = 1 \/ d \in in_use} |-> c[d]]

\* A variant that collects the directories in use from the targets of the
\* recorded symlinks.
prune_unused_cache_of_targets(c, lf) ==
    LET in_use == UNION {{SubSeq(e.target, 1, n) : n \in 0..(Len(e.target) - 1)} :
                            e \in Range(tool_symlinks(lf))}
        versions == {d \in DOMAIN c : Len(d) = 2 /\ d \in in_use}
        tool_dirs == {d \in DOMAIN c : Len(d) = 1 /\ \E v \in versions : v[1] = d[1]}
    IN  [d \in versions \cup tool_dirs |-> c[d]]

\* prune_unused_cache: the version directories on no recorded source's parent
\* chain are removed, and then the tool directories left empty.
prune_unused_cache(c, lf) ==
    LET in_use == UNION {{SubSeq(e.source, 1, n) : n \in 0..(Len(e.source) - 1)} :
                            e \in Range(tool_symlinks(lf))}
        versions == {d \in DOMAIN c : Len(d) = 2 /\ d \in in_use}
        tool_dirs == {d \in DOMAIN c : Len(d) = 1 /\ \E v \in versions : v[1] = d[1]}
    IN  [d \in versions \cup tool_dirs |-> c[d]]

(***************************************************************************)
(* Inputs of the workspace specification: the manifests of the profile.    *)
(***************************************************************************)
MaxRuns == 2

(***************************************************************************)
(* The runs of the workspace: install and update (workspace.rs), each tool *)
(* installed by the steps of GithubInstaller::install (installers/mod.rs). *)
(***************************************************************************)
Idle == [cmd |-> "idle", requested |-> None, pc |-> "idle", installed |-> <<>>]

\* The locals of GithubInstaller::install before its first step.
NewAttempt(bin) ==
    [release |-> [tag_name |-> <<>>, assets |-> <<>>], selected |-> SelectPending,
     version_dir |-> <<>>, digest |-> <<>>, downloads |-> 0, retries |-> 0,
     binary_links |-> <<>>, extra_links |-> <<>>, k |-> 1, bin_dir0 |-> bin]

\* How a run ended; changed_since: the forge, the manifest or the directories
\* were changed from outside after the run.
Outcome(status, cmd, requested, detail) ==
    [status |-> status, cmd |-> cmd, requested |-> requested, detail |-> detail,
     tool |-> <<>>, expected |-> <<>>, got |-> <<>>, downloads |-> 0, retries |-> 0,
     bin_dir0 |-> <<>>, installed |-> <<>>, changed_since |-> FALSE]

\* What a run finds when it starts: the disk, and how the run before it ended.
Snapshot ==
    [lock_disk |-> lock_disk, bin_dir |-> bin_dir, share_dir |-> share_dir,
     config_dir |-> config_dir, cache |-> cache, dirs |-> dirs,
     prior |-> [cmd |-> outcome.cmd, status |-> outcome.status,
                requested |-> outcome.requested, changed_since |-> outcome.changed_since]]

\* The names of a BTreeMap in iteration order.
RECURSIVE sorted_names(_)
sorted_names(S) ==
    IF S = {} THEN <<>>
    ELSE LET m == CHOOSE x \in S : \A y \in S : str_cmp(x, y) # "Greater"
         IN  <<m>> \o sorted_names(S \ {m})

definitions_of(tools, names) ==
    [i \in 1..Len(names) |-> [name |-> names[i], definition |-> tools[names[i]].definition]]

\* build_tool_tasks: [ok, err, tasks]
RECURSIVE build_tool_tasks(_)
build_tool_tasks(definitions) ==
    IF definitions = <<>> THEN [ok |-> TRUE, err |-> "", tasks |-> <<>>]
    ELSE LET c == create_installer(Head(definitions).definition)
             rest == build_tool_tasks(Tail(definitions))
         IN  IF ~c.ok THEN [ok |-> FALSE, err |-> c.err, tasks |-> <<>>]
             ELSE IF ~rest.ok THEN rest
             ELSE [rest EXCEPT !.tasks =
                      (IF c.some
                       THEN <<[name |-> Head(definitions).name,
                               resolved_version |-> c.dispatch.resolved_version,
                               installer |-> c.dispatch.installer]>>
                       ELSE <<>>) \o @]

\* A variant that removes the binary links of the receipts and leaves their extras.
remove_tracked_symlinks_keeping_extras(farm, lf) ==
    LET removed == remove_tool_symlink_entries(farm,
                       SelectSeq(tool_symlinks(lf), LAMBDA e : e.dir = "bin"))
    IN  [config |-> RemoveAll(farm.config,
                        {lf.config_symlinks[i].target : i \in 1..Len(lf.config_symlinks)}),
         bin |-> removed.bin, share |-> removed.share]

\* remove_tracked_symlinks, on farm = [config, bin, share]
remove_tracked_symlinks(farm, lf) ==
    LET removed == remove_tool_symlink_entries(farm, tool_symlinks(lf))
    IN  [config |-> RemoveAll(farm.config,
                        {lf.config_symlinks[i].target : i \in 1..Len(lf.config_symlinks)}),
         bin |-> removed.bin, share |-> removed.share]

\* for entry in &config_entries { entry.install()?; lockfile.add_config_symlink(..) }
RECURSIVE install_config_entries(_, _)
install_config_entries(acc, cfg_entries) ==
    IF cfg_entries = <<>> THEN acc
    ELSE install_config_entries(
            [config |-> create_symlink(acc.config, Head(cfg_entries).source,
                                       Head(cfg_entries).target),
             lockfile |-> add_config_symlink(acc.lockfile, Head(cfg_entries).source,
                                             Head(cfg_entries).target)],
            Tail(cfg_entries))

\* Path::exists of a path below cache/tools, and of an entry of the bin directory
cache_path_exists(c, path) ==
    /\ Len(path) >= 2
    /\ SubSeq(path, 1, 2) \in DOMAIN c
    /\ \/ Len(path) = 2
       \/ Len(path) = 3 /\ path[3] \in DOMAIN c[SubSeq(path, 1, 2)].assets
       \/ /\ path[3] = S_contents
          /\ c[SubSeq(path, 1, 2)].contents.exists
          /\ exists(c[SubSeq(path, 1, 2)].contents.tree, SubSeq(path, 4, Len(path)))
\* [exists, is_symlink]: Path::exists follows a symlink, Path::is_symlink does not
bin_target(bin, c, target) ==
    [exists |-> /\ target \in DOMAIN bin
                /\ bin[target].kind = "symlink" => cache_path_exists(c, bin[target].source),
     is_symlink |-> target \in DOMAIN bin /\ bin[target].kind = "symlink"]

\* The filter of update_tools over the tasks: a task whose resolved_version
\* equals every recorded entry's version, with all recorded paths in place, is
\* dropped as already current.
filter_tasks(task_list, lf, farm, c) ==
    SelectSeq(task_list, LAMBDA task :
        LET current == SelectSeq(tool_symlinks(lf), LAMBDA e : e.name = task.name)
            version_matches ==
                \A i \in 1..Len(current) : current[i].version = task.resolved_version.v
            missing_paths ==
                \E i \in 1..Len(current) :
                    \/ ~cache_path_exists(c, current[i].source)
                    \/ ~bin_target(farm[current[i].dir], c, current[i].target).exists
                    \/ ~bin_target(farm[current[i].dir], c, current[i].target).is_symlink
        IN  ~(task.resolved_version.some /\ current # <<>>
              /\ version_matches /\ ~missing_paths))

\* A variant that removes the symlinks of the prior entries and keeps the
\* receipts in the lockfile.
RECURSIVE drop_prior_entries_keeping_receipts(_, _)
drop_prior_entries_keeping_receipts(acc, names) ==
    IF names = <<>> THEN acc
    ELSE drop_prior_entries_keeping_receipts(
            LET removed == remove_tool_symlink_entries(acc,
                               SelectSeq(tool_symlinks(acc.lockfile),
                                         LAMBDA e : e.name = Head(names)))
            IN  [bin |-> removed.bin, share |-> removed.share, lockfile |-> acc.lockfile],
            Tail(names))

RECURSIVE drop_prior_entries(_, _)
\* for name in &names_to_update { remove_tool_symlink_entries; retain_tool_symlinks }
drop_prior_entries(acc, names) ==
    IF names = <<>> THEN acc
    ELSE drop_prior_entries(
            LET removed == remove_tool_symlink_entries(acc,
                               SelectSeq(tool_symlinks(acc.lockfile),
                                         LAMBDA e : e.name = Head(names)))
            IN  [bin |-> removed.bin, share |-> removed.share,
                 lockfile |-> retain_tool_symlinks(acc.lockfile, Head(names))],
            Tail(names))

\* fs::create_dir_all(&version_dir): the tool directory and the version directory
create_dir_all(c, dir) ==
    [d \in DOMAIN c \cup {SubSeq(dir, 1, n) : n \in 1..Len(dir)} |->
        IF d \in DOMAIN c THEN c[d]
        ELSE [assets |-> <<>>, contents |-> [exists |-> FALSE, tree |-> {}]]]

\* A file written at version_dir/name
\* download_asset: create_dir_all(parent), then the file is written.
write_asset(c, dir, name, body) ==
    [create_dir_all(c, dir) EXCEPT ![dir].assets =
        [n \in DOMAIN @ \cup {name} |-> IF n = name THEN body ELSE @[n]]]
asset_exists(c, dir, name) == dir \in DOMAIN c /\ name \in DOMAIN c[dir].assets

\* A variant of the end of a run that prunes and does not save the lockfile.
finish_run_unsaved(lf, bin, c, t, file) ==
    [ok |-> TRUE, bin |-> prune_unused_bin(bin, lf), cache |-> prune_unused_cache(c, lf),
     lock_disk |-> file]

\* A variant of the end of a run that saves the lockfile and does not prune.
finish_run_unpruned(lf, bin, c, t, file) ==
    LET saved == Lockfile_save([lf EXCEPT !.metadata.installed_at = t])
    IN  [ok |-> saved.ok, bin |-> bin, cache |-> c,
         lock_disk |-> IF saved.ok THEN saved.file ELSE file]

\* The end of install and of update_tools after the tasks: prune, stamp, save.
\* [ok, bin, cache, lock_disk]; a save that fails leaves the file as it was.
finish_run(lf, bin, c, t, file) ==
    LET saved == Lockfile_save([lf EXCEPT !.metadata.installed_at = t])
    IN  [ok |-> saved.ok,
         bin |-> prune_unused_bin(bin, lf),
         cache |-> prune_unused_cache(c, lf),
         lock_disk |-> IF saved.ok THEN saved.file ELSE file]

\* The candidates of update_tools: the selected tools that neither maintain
\* themselves nor are pinned to a version.
candidates_of(tools, names) ==
    SelectSeq(definitions_of(tools, names),
              LAMBDA d : ~d.definition.self_update /\ ~d.definition.version.some)

\* The memory of an invocation of the program that has not started a command.
NotStarted ==
    [switches |-> 0, overlapped |-> FALSE, run |-> Idle, lockfile |-> Lockfile_new(0), tasks |-> <<>>,
     attempt |-> NewAttempt(<<>>), outcome |-> Outcome("none", "", None, ""),
     entries |-> None,
     before |-> [lock_disk |-> NoLockfile, bin_dir |-> <<>>, share_dir |-> <<>>,
                 config_dir |-> <<>>, cache |-> <<>>, dirs |-> {},
                 prior |-> [cmd |-> "", status |-> "none", requested |-> None,
                            changed_since |-> FALSE]]]

\* The profile directory as a git repository: the manifest HEAD holds, the
\* RepositoryState, whether an untracked file lies in the worktree, and the
\* manifest of refs/remotes/origin/<branch> when that reference resolves.
\* The manifest of the worktree itself is profile_config.
(***************************************************************************)
(* Profiles (workspace.rs): names, repository identifiers and the names    *)
(* and URLs derived from them.                                             *)
(***************************************************************************)
P_default == <<"d", "e", "f", "a", "u", "l", "t">>
P_work == <<"w", "o", "r", "k">>
P_missing == <<"m", "i", "s", "s", "i", "n", "g">>
\* repository identifiers: a GitHub shorthand and a full URL
U_work == <<"a", "/", "w", "o", "r", "k">>
U_other == <<"f", "i", "l", "e", ":", "/", "/", "/", "b", "/">>
S_git == <<".", "g", "i", "t">>
S_https == <<"h", "t", "t", "p", "s", ":", "/", "/">>
S_http == <<"h", "t", "t", "p", ":", "/", "/">>
S_github == S_https \o <<"g", "i", "t", "h", "u", "b", ".", "c", "o", "m", "/">>

starts_with(s, prefix) == Len(prefix) <= Len(s) /\ SubSeq(s, 1, Len(prefix)) = prefix

\* str::trim_end_matches: the suffix is removed as often as it occurs at the end
RECURSIVE trim_end_matches(_, _)
trim_end_matches(s, suffix) ==
    IF suffix # <<>> /\ ends_with(s, suffix)
    THEN trim_end_matches(SubSeq(s, 1, Len(s) - Len(suffix)), suffix)
    ELSE s

\* canonical_url(repository)
canonical_url(repository) ==
    LET trimmed == trim(repository)
        url == IF contains(trimmed, <<":", "/", "/">>)
                    \/ starts_with(trimmed, <<"g", "i", "t", "@">>)
               THEN trimmed
               ELSE IF Cardinality({i \in 1..Len(trimmed) : trimmed[i] = "/"}) = 1
               THEN S_github \o trim_end_matches(trimmed, S_git) \o S_git
               ELSE trimmed
        cut == trim_end_matches(url, <<"/">>)
    IN  IF (starts_with(cut, S_https) \/ starts_with(cut, S_http)) /\ ~ends_with(cut, S_git)
        THEN cut \o S_git
        ELSE cut

\* profile_name_from_repository(repository)
profile_name_from_repository(repository) ==
    LET trimmed == trim_end_matches(trim_end_matches(trim(repository), <<"/">>), S_git)
        seps == {i \in 1..Len(trimmed) : trimmed[i] \in {"/", ":"}}
        last == IF seps = {} THEN trimmed
                ELSE SubSeq(trimmed, (CHOOSE i \in seps : \A j \in seps : j <= i) + 1,
                            Len(trimmed))
    IN  IF last = <<>> THEN P_default ELSE last

CleanRepository(manifest) ==
    [git |-> TRUE, state |-> "Clean", head |-> manifest, untracked |-> FALSE,
     origin |-> None]

\* No reset, use or init has been asked for.
NoCommand == [op |-> "none"]

\* The profile's manifests ([profile, workspace]: the tools tables of dws.toml
\* and of config.toml), no lockfile, empty directories.
Init ==
    /\ LET GithubSpec(version, self_update, checksum, asset_filter, bin, extras) ==
               [installer |-> "github",
                project |-> Some(<<"a", "c", "m", "e", "/", "t", "o", "o", "l", "s">>),
                version |-> version, url |-> None, shell |-> None, bin |-> bin,
                extras |-> extras, asset_filter |-> asset_filter,
                checksum |-> checksum, app |-> None, team_id |-> None,
                self_update |-> self_update, platforms |-> <<>>, hosts |-> <<>>]
           ManExtra ==
               [source |-> D_doc \o <<"/">> \o N_man, kind |-> "man", shell |-> None,
                target |-> None]
           K_latest(n) ==
               GithubSpec(None, FALSE, Some(ChecksumOf("a")), <<P_mac, P_64gz>>,
                          <<ToolBinary(n, None)>>,
                          IF n = T_rg THEN <<ManExtra>> ELSE <<>>)
           K_pinned(n) ==
               GithubSpec(Some(V_1), FALSE, Some(ChecksumOf("A")), <<P_64gz>>,
                          <<ToolBinary(D_bin \o <<"/">> \o n, None)>>, <<>>)
           K_self(n) ==
               GithubSpec(None, TRUE, Some(ChecksumOf("a")), <<P_64gz>>,
                          <<ToolBinary(n, None)>>, <<>>)
           K_nomatch(n) ==
               GithubSpec(None, FALSE, Some(ChecksumOf("a")), <<P_mac>>,
                          <<ToolBinary(n, None)>>, <<>>)
           K_badsum(n) ==
               GithubSpec(None, FALSE, Some(S_sha256 \o <<"a", "b", "c">>), <<P_64gz>>,
                          <<ToolBinary(n, None)>>, <<>>)
           K_nobin(n) ==
               GithubSpec(None, FALSE, Some(ChecksumOf("a")), <<P_64gz>>,
                          <<ToolBinary(T_jq, None)>>, <<>>)
           K_curl(n) == ToolSpecToml("curl", None, None, FALSE, <<>>, <<>>)
           Manifest(fd, rg) == (T_fd :> fd) @@ (T_rg :> rg)
           ManifestPool ==
               { [profile |-> <<>>, workspace |-> <<>>],
                 [profile |-> (T_rg :> K_latest(T_rg)), workspace |-> <<>>],
                 [profile |-> (T_fd :> K_curl(T_fd)), workspace |-> <<>>],
                 [profile |-> Manifest(K_latest(T_fd), K_latest(T_rg)), workspace |-> <<>>],
                 [profile |-> Manifest(K_pinned(T_fd), K_latest(T_rg)), workspace |-> <<>>],
                 [profile |-> Manifest(K_self(T_fd), K_latest(T_rg)), workspace |-> <<>>],
                 [profile |-> Manifest(K_latest(T_fd), K_nomatch(T_rg)), workspace |-> <<>>],
                 [profile |-> Manifest(K_latest(T_fd), K_badsum(T_rg)), workspace |-> <<>>],
                 [profile |-> Manifest(K_latest(T_fd), K_nobin(T_rg)), workspace |-> <<>>],
                 [profile |-> Manifest(K_curl(T_fd), K_latest(T_rg)), workspace |-> <<>>],
                 [profile |-> Manifest(K_pinned(T_fd), K_self(T_rg)),
                  workspace |-> (T_rg :> K_pinned(T_rg))] }
       IN  /\ \E pair \in ManifestPool :
                 /\ profile_config = pair.profile
                 /\ workspace_config = pair.workspace
           \* the default profile made from the template, and a profile cloned
           \* from a repository
           /\ profiles = (P_default :> [manifest |-> profile_config, origin |-> None])
                          @@ (P_work :> [manifest |-> (T_fd :> K_latest(T_fd)),
                                         origin |-> Some(canonical_url(U_work))])
    /\ active_profile = [memory |-> P_default, file |-> P_default]
    /\ machine = LocalMachine
    /\ entries = None
    /\ SelectIdle
    /\ BinaryIdle
    /\ call = <<>>
    /\ returned = <<>>
    /\ suspended = NotStarted
    /\ latest = V_1
    /\ now = 0
    /\ lock_disk = NoLockfile
    /\ bin_dir = <<>>
    /\ share_dir = <<>>
    /\ config_dir = <<>>
    /\ cache = <<>>
    /\ dirs = {}
    /\ run = Idle
    /\ lockfile = Lockfile_new(0)
    /\ tasks = <<>>
    /\ attempt = NewAttempt(<<>>)
    /\ outcome = Outcome("none", "", None, "")
    /\ before = Snapshot
    /\ repo = CleanRepository(profile_config)
    /\ command = NoCommand

\* prepare_tool_install_context: create_dir_all of the cache directory and of
\* the bin and share directories below the state directory
prepare_tool_install_context(existing) == existing \cup {"state", "cache"}

\* A run that returns without executing a task.
Return(status, cmd, requested, detail) ==
    /\ run' = Idle
    /\ tasks' = <<>>
    /\ attempt' = NewAttempt(<<>>)
    /\ outcome' = Outcome(status, cmd, requested, detail)

\* A run that goes on to execute_tool_tasks with a non-empty task list.
Execute(cmd, requested, task_list, bin) ==
    /\ run' = [cmd |-> cmd, requested |-> requested, pc |-> "fetch", installed |-> <<>>]
    /\ tasks' = task_list
    /\ attempt' = NewAttempt(bin)
    /\ outcome' = Outcome("none", "", None, "")

\* Workspace::install up to the first task
StartInstall ==
    \* asked for by the user, or reached by a reset that has cleaned up
    /\ run.pc \in {"idle", "install"}
    /\ now < MaxRuns
    /\ now' = now + 1
    /\ before' = Snapshot
    /\ LET tools == from_configs(ProfileSource, profile_config,
                                  WorkspaceSource, workspace_config, machine)
           \* Dotfiles::discover_entries: the profile's config directory
           N_zshrc == <<".", "z", "s", "h", "r", "c">>
           ConfigEntries == <<[source |-> <<<<"c", "f", "g">>, N_zshrc>>, target |-> <<N_zshrc>>]>>
           found == [config |-> config_dir, bin |-> bin_dir, share |-> share_dir]
           cleaned == IF lock_disk.exists
                      THEN remove_tracked_symlinks(found, Lockfile_load(lock_disk))
                      ELSE found
           linked == install_config_entries(
                        [config |-> cleaned.config, lockfile |-> Lockfile_new(now')],
                        ConfigEntries)
           built == build_tool_tasks(definitions_of(tools, sorted_names(DOMAIN tools)))
           done == finish_run(linked.lockfile, cleaned.bin, cache, now', lock_disk)
       IN  /\ entries' = Some(tools)
           /\ config_dir' = linked.config
           /\ share_dir' = cleaned.share
           /\ dirs' = prepare_tool_install_context(dirs)
           /\ lockfile' = linked.lockfile
           /\ IF ~built.ok
              THEN /\ Return("err", "install", None, built.err)
                   /\ bin_dir' = cleaned.bin
                   /\ UNCHANGED <<cache, lock_disk>>
              ELSE IF built.tasks = <<>>
              THEN /\ IF done.ok THEN Return("ok", "install", None, "NoTools")
                      ELSE Return("err", "install", None, "SaveFailed")
                   /\ bin_dir' = done.bin
                   /\ cache' = done.cache
                   /\ lock_disk' = done.lock_disk
              ELSE /\ Execute("install", None, built.tasks, cleaned.bin)
                   /\ bin_dir' = cleaned.bin
                   /\ UNCHANGED <<cache, lock_disk>>
    /\ UNCHANGED <<profileVars, selectVars, binaryVars, pureVars, profile_config, workspace_config, machine,
                   latest>>

\* Workspace::update_tools up to the first task
StartUpdate ==
    /\ run.cmd = "idle"
    /\ now < MaxRuns
    /\ now' = now + 1
    /\ before' = Snapshot
    \* `update` is asked for every tool, or for one tool by name
    /\ \E requested \in {None, Some(T_rg), Some(T_fd), Some(T_jq)} :
          LET tools == from_configs(ProfileSource, profile_config,
                                  WorkspaceSource, workspace_config, machine)
              names == IF requested.some THEN <<requested.v>>
                       ELSE sorted_names(DOMAIN tools)
              built == build_tool_tasks(candidates_of(tools, names))
              loaded == IF lock_disk.exists THEN Lockfile_load(lock_disk)
                        ELSE Lockfile_new(now')
              filtered == filter_tasks(built.tasks, loaded,
                                       [bin |-> bin_dir, share |-> share_dir], cache)
              dropped == drop_prior_entries(
                            [bin |-> bin_dir, share |-> share_dir, lockfile |-> loaded],
                            [i \in 1..Len(filtered) |-> filtered[i].name])
          IN  /\ entries' = Some(tools)
              /\ dirs' = IF \/ DOMAIN tools = {}
                            \/ requested.some /\ requested.v \notin DOMAIN tools
                            \/ candidates_of(tools, names) = <<>>
                         THEN dirs ELSE prepare_tool_install_context(dirs)
              /\ IF DOMAIN tools = {}
                 THEN Return("ok", "update", requested, "NoTools") /\ UNCHANGED <<bin_dir, share_dir, lockfile>>
                 ELSE IF requested.some /\ requested.v \notin DOMAIN tools
                 THEN Return("err", "update", requested, "UndefinedTool")
                      /\ UNCHANGED <<bin_dir, share_dir, lockfile>>
                 ELSE IF candidates_of(tools, names) = <<>>
                 THEN Return("ok", "update", requested, "NoCandidates")
                      /\ UNCHANGED <<bin_dir, share_dir, lockfile>>
                 ELSE IF ~built.ok
                 THEN Return("err", "update", requested, built.err) /\ UNCHANGED <<bin_dir, share_dir, lockfile>>
                 ELSE IF built.tasks = <<>>
                 THEN Return("ok", "update", requested, "NoInstallers")
                      /\ UNCHANGED <<bin_dir, share_dir, lockfile>>
                 ELSE IF filtered = <<>>
                 THEN Return("ok", "update", requested, "UpToDate") /\ UNCHANGED <<bin_dir, share_dir, lockfile>>
                 ELSE /\ Execute("update", requested, filtered, dropped.bin)
                      /\ bin_dir' = dropped.bin
                      /\ share_dir' = dropped.share
                      /\ lockfile' = dropped.lockfile
    /\ UNCHANGED <<profileVars, selectVars, binaryVars, pureVars, profile_config, workspace_config, machine,
                   latest, lock_disk, config_dir, cache>>

\* Workspace::uninstall on a disk: what it leaves of it
uninstall(disk) ==
    IF ~disk.lock_disk.exists THEN disk
    ELSE LET cleaned == remove_tracked_symlinks(
                           [config |-> disk.config_dir, bin |-> disk.bin_dir,
                            share |-> disk.share_dir],
                           Lockfile_load(disk.lock_disk))
         IN  [lock_disk |-> NoLockfile,
              config_dir |-> cleaned.config,
              \* remove_dir_all(state_dir): bin and share lie below it
              bin_dir |-> IF "state" \in disk.dirs THEN <<>> ELSE cleaned.bin,
              share_dir |-> IF "state" \in disk.dirs THEN <<>> ELSE cleaned.share,
              cache |-> IF "cache" \in disk.dirs THEN <<>> ELSE disk.cache,
              dirs |-> {}]

\* The directories and the lockfile as they are now.
Disk ==
    [lock_disk |-> lock_disk, config_dir |-> config_dir, bin_dir |-> bin_dir,
     share_dir |-> share_dir, cache |-> cache, dirs |-> dirs]

\* The directories and the lockfile become what `disk` holds.
WriteDisk(disk) ==
    /\ lock_disk' = disk.lock_disk
    /\ config_dir' = disk.config_dir
    /\ bin_dir' = disk.bin_dir
    /\ share_dir' = disk.share_dir
    /\ cache' = disk.cache
    /\ dirs' = disk.dirs

\* Workspace::uninstall
Uninstall ==
    /\ run.cmd = "idle"
    /\ now < MaxRuns
    /\ now' = now + 1
    /\ before' = Snapshot
    /\ outcome' = Outcome("ok", "uninstall", None,
                          IF lock_disk.exists THEN "Finished" ELSE "NoLockfile")
    /\ WriteDisk(uninstall(Disk))
    /\ UNCHANGED <<profileVars, selectVars, toolsetVars, binaryVars, pureVars, latest, run, lockfile, tasks,
                   attempt>>

\* Upstream publishes a new release of the project between two runs.
Publish ==
    /\ run.cmd = "idle"
    /\ latest = V_1
    /\ latest' = V_2
    /\ outcome' = [outcome EXCEPT !.changed_since = TRUE]
    /\ UNCHANGED <<profileVars, selectVars, toolsetVars, binaryVars, pureVars, now, diskVars, run, lockfile,
                   tasks, attempt, before>>

\* Between two runs the user takes an installed tool out of the profile manifest.
EditManifest ==
    /\ run.cmd = "idle"
    /\ now < MaxRuns
    /\ T_rg \in DOMAIN profile_config
    /\ \E r \in Range(lock_disk.document.tool_receipts) : r.name = T_rg
    /\ profile_config' = [n \in DOMAIN profile_config \ {T_rg} |-> profile_config[n]]
    /\ outcome' = [outcome EXCEPT !.changed_since = TRUE]
    /\ UNCHANGED <<profileVars, selectVars, binaryVars, pureVars, workspace_config, machine, entries, latest, now,
                   diskVars, run, lockfile, tasks, attempt, before>>

\* Between two runs the user puts a regular file of their own into the bin
\* directory, under a fresh name or in the place of a symlink.
PlaceFile ==
    /\ run.cmd = "idle"
    /\ now < MaxRuns
    /\ "state" \in dirs
    /\ \A k \in DOMAIN bin_dir : bin_dir[k].kind = "symlink"
    /\ \E name \in {T_fd, T_jq} :
          bin_dir' = [k \in DOMAIN bin_dir \cup {name} |->
                        IF k = name THEN [kind |-> "file", source |-> <<>>] ELSE bin_dir[k]]
    /\ outcome' = [outcome EXCEPT !.changed_since = TRUE]
    /\ UNCHANGED <<profileVars, selectVars, toolsetVars, binaryVars, pureVars, latest, now, lock_disk, share_dir,
                   config_dir, cache, dirs, run, lockfile, tasks, attempt, before>>

\* The installer of the task in hand, and the paths of its attempt.
installer == Head(tasks).installer
asset_name == attempt.selected.asset.name
asset_path == Append(attempt.version_dir, asset_name)
extract_dir == Append(attempt.version_dir, S_contents)

\* `?` in GithubInstaller::install, and execute_tool_tasks returning the error:
\* the run ends with the lockfile in memory dropped.
AbortTask(detail, a) ==
    /\ run' = Idle
    /\ tasks' = <<>>
    /\ attempt' = NewAttempt(<<>>)
    /\ outcome' =
          [status |-> "err", cmd |-> run.cmd, requested |-> run.requested,
           detail |-> detail, tool |-> installer.name,
           expected |-> IF detail = "ChecksumMismatch"
                        THEN format_digest(installer.checksum) ELSE <<>>,
           got |-> IF detail = "ChecksumMismatch" THEN format_digest(a.digest) ELSE <<>>,
           downloads |-> a.downloads, retries |-> a.retries, bin_dir0 |-> a.bin_dir0,
           installed |-> run.installed, changed_since |-> FALSE]

\* self.context.github_api.fetch_release(&self.project, self.version.as_deref())?
FetchRelease ==
    /\ run.pc = "fetch"
    /\ LET r == fetch_release(installer.project, installer.version, latest)
       IN  IF r.ok
           THEN /\ attempt' = [attempt EXCEPT !.release = r.release]
                /\ run' = [run EXCEPT !.pc = "select"]
                /\ UNCHANGED <<tasks, outcome>>
           ELSE AbortTask("ReleaseNotFound", attempt)
    /\ UNCHANGED <<profileVars, selectVars, toolsetVars, binaryVars, pureVars, latest, now, diskVars, lockfile,
                   before>>

\* release.select_asset(&self.asset_filters)?, then create_dir_all(&version_dir)
InstallSelectAsset ==
    /\ run.pc = "select"
    /\ LET s == select_asset(attempt.release.assets, installer.asset_filters)
           dir == version_dir(installer.name, attempt.release.tag_name)
       IN  IF s.status = "ok"
           THEN /\ attempt' = [attempt EXCEPT !.selected = s, !.version_dir = dir]
                /\ cache' = create_dir_all(cache, dir)
                /\ run' = [run EXCEPT !.pc = "digest"]
                /\ UNCHANGED <<tasks, outcome>>
           ELSE AbortTask(s.err, attempt) /\ UNCHANGED cache
    /\ UNCHANGED <<profileVars, selectVars, toolsetVars, binaryVars, pureVars, latest, now, dirs, lock_disk, bin_dir,
                   share_dir, config_dir, lockfile, before>>

\* asset_path.exists(): github::compute_sha256(&asset_path)?
ComputeCachedDigest ==
    /\ run.pc = "digest"
    /\ asset_exists(cache, attempt.version_dir, asset_name)
    /\ attempt' = [attempt EXCEPT
                      !.digest = Sha256(cache[attempt.version_dir].assets[asset_name])]
    /\ run' = [run EXCEPT !.pc = "verify"]
    /\ UNCHANGED <<profileVars, selectVars, toolsetVars, binaryVars, pureVars, latest, now, diskVars, lockfile,
                   tasks, outcome, before>>

\* otherwise: download_asset(&selected.asset.browser_download_url, &asset_path)?
DownloadAsset ==
    /\ run.pc = "digest"
    /\ ~asset_exists(cache, attempt.version_dir, asset_name)
    /\ \E body \in Bodies :
          /\ cache' = write_asset(cache, attempt.version_dir, asset_name, body)
          /\ attempt' = [attempt EXCEPT !.digest = Sha256(body), !.downloads = @ + 1]
    /\ run' = [run EXCEPT !.pc = "verify"]
    /\ UNCHANGED <<profileVars, selectVars, toolsetVars, binaryVars, pureVars, latest, now, dirs, lock_disk, bin_dir,
                   share_dir, config_dir, lockfile, tasks, outcome, before>>

\* if digest != self.checksum { remove the file at asset_path if it exists ...
VerifyChecksum ==
    /\ run.pc = "verify"
    /\ IF attempt.digest # installer.checksum
       THEN /\ cache' = IF asset_exists(cache, attempt.version_dir, asset_name)
                        THEN [cache EXCEPT ![attempt.version_dir].assets =
                                 [n \in DOMAIN @ \ {asset_name} |-> @[n]]]
                        ELSE cache
            /\ run' = [run EXCEPT !.pc = "retry"]
       ELSE /\ run' = [run EXCEPT !.pc = "extract"]
            /\ UNCHANGED cache
    /\ UNCHANGED <<profileVars, selectVars, toolsetVars, binaryVars, pureVars, latest, now, dirs, lock_disk, bin_dir,
                   share_dir, config_dir, lockfile, tasks, attempt, outcome, before>>

\* A variant of the retry that goes on to extraction whatever the digest is.
RetryDownload_unchecked ==
    /\ run.pc = "retry"
    /\ \E body \in Bodies :
          /\ cache' = write_asset(cache, attempt.version_dir, asset_name, body)
          /\ attempt' = [attempt EXCEPT !.digest = Sha256(body), !.downloads = @ + 1,
                                        !.retries = @ + 1]
    /\ run' = [run EXCEPT !.pc = "extract"]
    /\ UNCHANGED <<profileVars, selectVars, toolsetVars, binaryVars, pureVars, latest, now, dirs, lock_disk, bin_dir,
                   share_dir, config_dir, lockfile, tasks, outcome, before>>

\* A variant of the retry that downloads again after a second mismatch.
RetryDownload_again ==
    /\ run.pc = "retry"
    /\ \E body \in Bodies :
          LET a == [attempt EXCEPT !.digest = Sha256(body), !.downloads = @ + 1,
                                   !.retries = @ + 1]
          IN  /\ cache' = write_asset(cache, attempt.version_dir, asset_name, body)
              /\ IF a.digest # installer.checksum /\ a.retries >= 2
                 THEN AbortTask("ChecksumMismatch", a)
                 ELSE /\ attempt' = a
                      /\ run' = [run EXCEPT !.pc =
                                    IF a.digest # installer.checksum THEN "retry"
                                    ELSE "extract"]
                      /\ UNCHANGED <<tasks, outcome>>
    /\ UNCHANGED <<profileVars, selectVars, toolsetVars, binaryVars, pureVars, latest, now, dirs, lock_disk, bin_dir,
                   share_dir, config_dir, lockfile, before>>

\* ... digest = download_asset(..)?; if digest != self.checksum { bail!(..) } }
RetryDownload ==
    /\ run.pc = "retry"
    /\ \E body \in Bodies :
          LET a == [attempt EXCEPT !.digest = Sha256(body), !.downloads = @ + 1,
                                   !.retries = @ + 1]
          IN  /\ cache' = write_asset(cache, attempt.version_dir, asset_name, body)
              /\ IF a.digest # installer.checksum
                 THEN AbortTask("ChecksumMismatch", a)
                 ELSE /\ attempt' = a
                      /\ run' = [run EXCEPT !.pc = "extract"]
                      /\ UNCHANGED <<tasks, outcome>>
    /\ UNCHANGED <<profileVars, selectVars, toolsetVars, binaryVars, pureVars, latest, now, dirs, lock_disk, bin_dir,
                   share_dir, config_dir, lockfile, before>>

\* A variant that leaves a previous extraction directory as it is.
clear_extract_dir_skipped(contents) == contents

\* if extract_dir.exists() { fs::remove_dir_all(&extract_dir) }
clear_extract_dir(contents) ==
    IF contents.exists THEN [exists |-> FALSE, tree |-> {}] ELSE contents

\* extract_archive(&asset_path, &extract_dir): the entries of the archive are
\* written into the directory, over what it holds under the same paths.
extract_archive(contents, body) ==
    [exists |-> TRUE, tree |-> contents.tree \cup ArchiveTree(body)]

\* remove_dir_all(&extract_dir); create_dir_all(&extract_dir); extract_archive(..)?
ExtractArchive ==
    /\ run.pc = "extract"
    /\ IF asset_exists(cache, attempt.version_dir, asset_name)
       THEN /\ cache' = [cache EXCEPT ![attempt.version_dir].contents =
                            extract_archive(
                                clear_extract_dir(@),
                                cache[attempt.version_dir].assets[asset_name])]
            /\ run' = [run EXCEPT !.pc = IF installer.bins # <<>> THEN "bins"
                                         ELSE IF installer.extras # <<>> THEN "extras"
                                         ELSE "record"]
            /\ attempt' = [attempt EXCEPT !.k = 1]
            /\ UNCHANGED <<tasks, outcome>>
       \* File::open(archive_path) fails: the directories are there, the archive is not
       ELSE /\ cache' = [create_dir_all(cache, attempt.version_dir)
                            EXCEPT ![attempt.version_dir].contents =
                                       [clear_extract_dir(@) EXCEPT !.exists = TRUE]]
            /\ AbortTask("ExtractFailed", attempt)
    /\ UNCHANGED <<profileVars, selectVars, toolsetVars, binaryVars, pureVars, latest, now, dirs, lock_disk,
                   bin_dir, share_dir, config_dir, lockfile, before>>

\* for bin in &self.bins: resolve_binary_path, remove what occupies the target, symlink
LinkBinary ==
    /\ run.pc = "bins"
    /\ LET bin == installer.bins[attempt.k]
           tree == IF attempt.version_dir \in DOMAIN cache
                   THEN cache[attempt.version_dir].contents.tree ELSE {}
           r == resolve_binary_path(tree, bin.source)
           source_path == extract_dir \o r.path
           link_name == IF bin.link.some THEN bin.link.v ELSE file_name(r.path)
       IN  IF r.status = "ok"
           THEN /\ bin_dir' = create_symlink(remove_file(bin_dir, link_name),
                                             source_path, link_name)
                /\ attempt' = [attempt EXCEPT
                      !.binary_links = Append(@, BinaryLink(link_name, source_path, link_name)),
                      !.k = IF attempt.k = Len(installer.bins) THEN 1 ELSE @ + 1]
                /\ run' = [run EXCEPT !.pc = IF attempt.k < Len(installer.bins) THEN "bins"
                                             ELSE IF installer.extras # <<>> THEN "extras"
                                             ELSE "record"]
                /\ UNCHANGED <<tasks, outcome>>
           ELSE AbortTask(r.err, attempt) /\ UNCHANGED bin_dir
    /\ UNCHANGED <<profileVars, selectVars, toolsetVars, binaryVars, pureVars, latest, now, dirs, lock_disk, share_dir,
                   config_dir, cache, lockfile, before>>

\* for extra in &self.extras: resolve_extra_path, resolve_extra_target, symlink
LinkExtra ==
    /\ run.pc = "extras"
    /\ LET extra == installer.extras[attempt.k]
           tree == IF attempt.version_dir \in DOMAIN cache
                   THEN cache[attempt.version_dir].contents.tree ELSE {}
           r == resolve_binary_path(tree, extra.source)
           resolved_source == extract_dir \o r.path
           target == resolve_extra_target(sanitize_component(installer.name), extra,
                                          resolved_source)
       IN  IF r.status = "ok" /\ target.ok
           THEN /\ share_dir' = create_symlink(remove_file(share_dir, target.path),
                                               resolved_source, target.path)
                /\ attempt' = [attempt EXCEPT
                      !.extra_links = Append(@, ExtraLink(extra.kind, resolved_source,
                                                          target.path)),
                      !.k = IF attempt.k = Len(installer.extras) THEN 1 ELSE @ + 1]
                /\ run' = [run EXCEPT !.pc = IF attempt.k = Len(installer.extras)
                                             THEN "record" ELSE "extras"]
                /\ UNCHANGED <<tasks, outcome>>
           ELSE /\ AbortTask(IF r.status = "ok" THEN "ExtraTarget" ELSE r.err, attempt)
                /\ UNCHANGED share_dir
    /\ UNCHANGED <<profileVars, selectVars, toolsetVars, binaryVars, pureVars, latest, now, dirs, lock_disk, bin_dir,
                   config_dir, cache, lockfile, before>>

\* A variant of the record that writes the version of the manifest twice.
recorded_as_declared ==
    LET declared == IF installer.version.some THEN installer.version.v
                    ELSE <<"l", "a", "t", "e", "s", "t">>
    IN  record_tool_install(
            lockfile, installer.name, declared, declared, "github", attempt.binary_links,
            attempt.extra_links,
            Some(AssetRecord(asset_name, attempt.selected.asset.browser_download_url,
                             format_digest(attempt.digest), asset_path, extract_dir,
                             Some(attempt.selected.pattern_index),
                             Some(attempt.selected.pattern))),
            now)

\* lockfile.record_tool_install(..) of the attempt in hand
recorded ==
    record_tool_install(
        lockfile, installer.name,
        IF installer.version.some THEN installer.version.v
        ELSE <<"l", "a", "t", "e", "s", "t">>,
        attempt.release.tag_name, "github", attempt.binary_links, attempt.extra_links,
        Some(AssetRecord(asset_name, attempt.selected.asset.browser_download_url,
                         format_digest(attempt.digest), asset_path, extract_dir,
                         Some(attempt.selected.pattern_index),
                         Some(attempt.selected.pattern))),
        now)

\* A variant of the last step in which the lockfile is saved after every tool.
RecordInstall_saving ==
    /\ run.pc = "record"
    /\ lockfile' = recorded
    /\ IF Len(tasks) > 1
       THEN /\ tasks' = Tail(tasks)
            /\ attempt' = NewAttempt(bin_dir)
            /\ run' = [run EXCEPT !.pc = "fetch", !.installed = Append(@, installer.name)]
            /\ lock_disk' = Lockfile_save(recorded).file
            /\ UNCHANGED <<bin_dir, cache, outcome>>
       ELSE LET done == finish_run(recorded, bin_dir, cache, now, lock_disk)
            IN  /\ run' = Idle
                /\ tasks' = <<>>
                /\ attempt' = NewAttempt(<<>>)
                /\ outcome' = [Outcome(IF done.ok THEN "ok" ELSE "err", run.cmd,
                                        run.requested,
                                        IF done.ok THEN "Finished" ELSE "SaveFailed")
                                   EXCEPT !.installed = Append(run.installed, installer.name)]
                /\ bin_dir' = done.bin
                /\ cache' = done.cache
                /\ lock_disk' = done.lock_disk
    /\ UNCHANGED <<profileVars, selectVars, toolsetVars, binaryVars, pureVars, latest, now, dirs, share_dir, config_dir,
                   before>>

\* The receipt of the tool is recorded in the lockfile in memory; the next task
\* follows, or after the last one the run prunes, stamps and saves the lockfile.
RecordInstall ==
    /\ run.pc = "record"
    /\ lockfile' = recorded
    /\ IF Len(tasks) > 1
       THEN /\ tasks' = Tail(tasks)
            /\ attempt' = NewAttempt(bin_dir)
            /\ run' = [run EXCEPT !.pc = "fetch", !.installed = Append(@, installer.name)]
            /\ UNCHANGED <<bin_dir, cache, lock_disk, outcome>>
       ELSE LET done == finish_run(recorded, bin_dir, cache, now, lock_disk)
            IN  /\ run' = Idle
                /\ tasks' = <<>>
                /\ attempt' = NewAttempt(<<>>)
                /\ outcome' = [Outcome(IF done.ok THEN "ok" ELSE "err", run.cmd,
                                        run.requested,
                                        IF done.ok THEN "Finished" ELSE "SaveFailed")
                                   EXCEPT !.installed = Append(run.installed, installer.name)]
                /\ bin_dir' = done.bin
                /\ cache' = done.cache
                /\ lock_disk' = done.lock_disk
    /\ UNCHANGED <<profileVars, selectVars, toolsetVars, binaryVars, pureVars, latest, now, dirs, share_dir, config_dir,
                   before>>

Next ==
    \/ StartInstall
    \/ StartUpdate
    \/ Uninstall
    \/ EditManifest
    \/ PlaceFile
    \/ Publish
    \/ FetchRelease
    \/ InstallSelectAsset
    \/ ComputeCachedDigest
    \/ DownloadAsset
    \/ VerifyChecksum
    \/ RetryDownload
    \/ ExtractArchive
    \/ LinkBinary
    \/ LinkExtra
    \/ RecordInstall

Spec == Init /\ [][Next]_vars

(***************************************************************************)
(* Two invocations of the program over one workspace.  Nothing in install, *)
(* update_tools or Lockfile::save takes a lock: the operating system may   *)
(* stop one process between two of its steps and let the other one run.    *)
(* The directories, the lockfile on disk and the forge are shared, the     *)
(* memory of a process is its own.                                         *)
(***************************************************************************)
MaxSwitches == 2

\* The running process is stopped, in the middle of a command or after it, and
\* the other one goes on; overlapped: a process was stopped in the middle.
Switch ==
    /\ suspended.switches < MaxSwitches
    /\ run.cmd # "idle" \/ suspended.run.cmd # "idle" \/ outcome.status # "none"
    /\ suspended' = [switches |-> suspended.switches + 1,
                     overlapped |-> suspended.overlapped \/ run.cmd # "idle", run |-> run,
                     lockfile |-> lockfile, tasks |-> tasks, attempt |-> attempt,
                     outcome |-> outcome, entries |-> entries, before |-> before]
    /\ run' = suspended.run
    /\ lockfile' = suspended.lockfile
    /\ tasks' = suspended.tasks
    /\ attempt' = suspended.attempt
    /\ outcome' = suspended.outcome
    /\ entries' = suspended.entries
    /\ before' = suspended.before
    /\ UNCHANGED <<profileVars, selectVars, binaryVars, call, returned, profile_config, workspace_config,
                   machine, latest, now, diskVars>>

NextRace ==
    \/ Next
    \/ Switch

\* The manifest of the two invocations declares one tool, at its latest release.
InitRace == Init /\ DOMAIN profile_config = {T_rg}

SpecRace == InitRace /\ [][NextRace]_vars

(***************************************************************************)
(* Workspace::reset (workspace.rs): the profile directory is a git         *)
(* repository whose worktree holds the profile manifest.                   *)
(***************************************************************************)
\* repo.statuses(include_untracked, not include_ignored): the flags of the
\* worktree entries that differ from HEAD
statuses(r, worktree) ==
    (IF worktree # r.head THEN {"WT_MODIFIED"} ELSE {})
        \cup (IF r.untracked THEN {"WT_NEW"} ELSE {})

\* The same with include_untracked(false).
ensure_clean_worktree_tracked_only(r, worktree) ==
    IF r.state # "Clean" THEN [ok |-> FALSE, err |-> "InProgress"]
    ELSE IF statuses(r, worktree) \ {"WT_NEW"} # {} THEN [ok |-> FALSE, err |-> "Uncommitted"]
    ELSE [ok |-> TRUE, err |-> ""]

\* ensure_clean_worktree(repo): [ok, err]
ensure_clean_worktree(r, worktree) ==
    IF r.state # "Clean" THEN [ok |-> FALSE, err |-> "InProgress"]
    ELSE IF statuses(r, worktree) # {} THEN [ok |-> FALSE, err |-> "Uncommitted"]
    ELSE [ok |-> TRUE, err |-> ""]

\* confirm_reset() on the line the user types
confirm_reset(input) ==
    to_ascii_lowercase(trim(input)) \in {<<"y">>, <<"y", "e", "s">>}

\* determine_reset_target(repo): the branch of origin when it resolves, else HEAD
determine_reset_target(r) == IF r.origin.some THEN r.origin.v ELSE r.head

\* Workspace::reset(force) up to the end of its uninstall: the checks return
\* before anything is touched.
Reset ==
    /\ run.cmd = "idle"
    /\ now < MaxRuns
    /\ \E force \in BOOLEAN, input \in {<<"n">>, <<"Y">>, <<"y", "e", "s", " ">>} :
          LET clean == IF repo.git /\ ~force
                       THEN ensure_clean_worktree(repo, profile_config)
                       ELSE [ok |-> TRUE, err |-> ""]
              asked == [op |-> "reset", force |-> force, input |-> input,
                        dirty |-> repo.git /\ statuses(repo, profile_config) # {},
                        in_progress |-> repo.git /\ repo.state # "Clean",
                        installed |-> lock_disk.exists]
          IN  IF ~clean.ok
              THEN /\ command' = asked @@ [result |-> clean.err]
                   /\ UNCHANGED <<diskVars, run>>
              ELSE IF ~force /\ ~confirm_reset(input)
              THEN /\ command' = asked @@ [result |-> "Cancelled"]
                   /\ UNCHANGED <<diskVars, run>>
              ELSE /\ command' = asked @@ [result |-> "Proceeded"]
                   /\ WriteDisk(uninstall(Disk))
                   /\ run' = [Idle EXCEPT !.cmd = "reset",
                                          !.pc = IF repo.git THEN "reset_repository"
                                                 ELSE "install"]
    /\ UNCHANGED <<selectVars, toolsetVars, binaryVars, pureVars, latest, now, lockfile, tasks,
                   attempt, outcome, before, repo, activeVars>>

\* reset_repository(repo): hard reset to the target, forced checkout that
\* removes untracked files, cleanup_state
ResetRepository ==
    /\ run.cmd = "reset" /\ run.pc = "reset_repository"
    /\ profile_config' = determine_reset_target(repo)
    /\ repo' = [repo EXCEPT !.head = determine_reset_target(repo), !.state = "Clean",
                            !.untracked = FALSE]
    /\ run' = [run EXCEPT !.pc = "install"]
    /\ UNCHANGED <<selectVars, binaryVars, pureVars, workspace_config, machine, entries, latest,
                   now, diskVars, lockfile, tasks, attempt, outcome, before, command, activeVars>>

\* Between two commands the user works in the profile repository: leaves an
\* untracked file, stops in the middle of a merge; or origin's branch moves to
\* a commit without tools and is fetched.
Disturb ==
    /\ run.cmd = "idle"
    /\ now < MaxRuns
    /\ repo = CleanRepository(repo.head)
    /\ \/ repo' = [repo EXCEPT !.untracked = TRUE]
       \/ repo' = [repo EXCEPT !.state = "Merge"]
       \/ repo' = [repo EXCEPT !.origin = Some(<<>>)]
    /\ outcome' = [outcome EXCEPT !.changed_since = TRUE]
    /\ UNCHANGED <<selectVars, toolsetVars, binaryVars, pureVars, latest, now, diskVars, run,
                   lockfile, tasks, attempt, before, command, activeVars>>

NextReset ==
    \/ Next
    \/ Reset
    \/ ResetRepository
    \/ Disturb

\* The profile of the resets declares one tool, at its latest release.
InitReset == Init /\ DOMAIN profile_config = {T_rg}

SpecReset == InitReset /\ [][NextReset]_vars

(***************************************************************************)
(* Workspace::use_profile and Workspace::init (workspace.rs).  The install *)
(* they end with is the run of StartInstall and the task steps.            *)
(***************************************************************************)
S_zsh == <<"z", "s", "h">>
S_bash == <<"b", "a", "s", "h">>
S_fish == <<"f", "i", "s", "h">>
S_tcsh == <<"t", "c", "s", "h">>

\* The symlinks a lockfile tracks, by directory and target path.
TrackedLinks(lf) ==
    {[dir |-> "config", target |-> lf.config_symlinks[i].target] :
        i \in 1..Len(lf.config_symlinks)}
        \cup {[dir |-> e.dir, target |-> e.target] : e \in Range(tool_symlinks(lf))}

InPlace(l) ==
    l.target \in DOMAIN (CASE l.dir = "config" -> config_dir
                           [] l.dir = "bin" -> bin_dir
                           [] OTHER -> share_dir)

\* The symlinks of the lockfile on disk that are where it says.
TrackedInPlace ==
    IF lock_disk.exists THEN {l \in TrackedLinks(Lockfile_load(lock_disk)) : InPlace(l)}
    ELSE {}

\* set_active_profile(profile): the name in workspace_config, the paths of
\* self.active_profile, and workspace_config.save; dirs_found are the profile
\* directories at that moment.
set_active_profile(name, dirs_found) ==
    /\ active_profile' = [memory |-> name, file |-> name]
    /\ profiles' = [dirs_found EXCEPT ![active_profile.memory].manifest = profile_config]
    /\ IF name = active_profile.memory
       THEN UNCHANGED <<profile_config, repo>>
       ELSE /\ profile_config' = dirs_found[name].manifest
            /\ repo' = [CleanRepository(dirs_found[name].manifest)
                           EXCEPT !.git = dirs_found[name].origin.some]

\* What a use or an init is asked and what it finds.
Asked(op, name) ==
    [op |-> op, name |-> name, at |-> now, was |-> active_profile, tracked |-> TrackedInPlace]

\* Workspace::use_profile up to self.install()
UseProfile ==
    /\ run.cmd = "idle"
    /\ now < MaxRuns
    /\ \E profile_name \in {P_default, P_work, P_missing} :
          LET found == [config |-> config_dir, bin |-> bin_dir, share |-> share_dir]
              cleaned == IF lock_disk.exists
                         THEN remove_tracked_symlinks(found, Lockfile_load(lock_disk))
                         ELSE found
              asked == Asked("use", profile_name)
          IN  IF profile_name = active_profile.memory
              THEN /\ command' = asked @@ [result |-> "AlreadyActive"]
                   /\ UNCHANGED <<activeVars, profile_config, repo, config_dir, bin_dir,
                                  share_dir, run>>
              ELSE IF profile_name \notin DOMAIN profiles
              THEN /\ command' = asked @@ [result |-> "DoesNotExist"]
                   /\ UNCHANGED <<activeVars, profile_config, repo, config_dir, bin_dir,
                                  share_dir, run>>
              ELSE /\ command' = asked @@ [result |-> "install"]
                   /\ config_dir' = cleaned.config
                   /\ bin_dir' = cleaned.bin
                   /\ share_dir' = cleaned.share
                   /\ set_active_profile(profile_name, profiles)
                   /\ run' = [Idle EXCEPT !.cmd = "use", !.pc = "install"]
    /\ UNCHANGED <<selectVars, binaryVars, pureVars, workspace_config, machine, entries, latest,
                   now, lock_disk, cache, dirs, lockfile, tasks, attempt, outcome, before>>

\* verify_profile_repo(profile, expected_repo): [ok, err]
verify_profile_repo(profile, expected_repo) ==
    IF ~profile.origin.some THEN [ok |-> FALSE, err |-> "NotARepository"]
    ELSE IF canonical_url(expected_repo) # canonical_url(profile.origin.v)
    THEN [ok |-> FALSE, err |-> "Mismatch"]
    ELSE [ok |-> TRUE, err |-> ""]

\* clone_profile(repository, profile), cloned: whether git could clone the
\* repository, which declares no tools: [ok, err, profiles]
clone_profile(dirs_found, repository, name, cloned) ==
    IF name \in DOMAIN dirs_found
    THEN [ok |-> FALSE, err |-> "AlreadyExists", profiles |-> dirs_found]
    ELSE IF ~cloned THEN [ok |-> FALSE, err |-> "CloneFailed", profiles |-> dirs_found]
    ELSE [ok |-> TRUE, err |-> "",
          profiles |-> dirs_found @@ (name :> [manifest |-> <<>>,
                                               origin |-> Some(canonical_url(repository))])]

\* Workspace::init up to self.install()
InitWorkspace ==
    /\ run.cmd = "idle"
    /\ now < MaxRuns
    /\ \E repository \in {None, Some(U_work), Some(U_other)},
          profile \in {None, Some(P_work), Some(P_default)},
          shell \in {S_zsh, S_tcsh}, cloned \in BOOLEAN :
          LET target_name ==
                  IF profile.some THEN profile.v
                  ELSE IF repository.some THEN profile_name_from_repository(repository.v)
                  ELSE active_profile.memory
              verified == verify_profile_repo(profiles[target_name], repository.v)
              prepared ==
                  IF ~repository.some
                  THEN \* ensure_profile_template: the files the profile has are kept
                       [ok |-> TRUE, err |-> "", profiles |-> profiles]
                  ELSE IF target_name \in DOMAIN profiles
                  THEN [ok |-> verified.ok, err |-> verified.err, profiles |-> profiles]
                  ELSE clone_profile(profiles, repository.v, target_name, cloned)
              asked == Asked("init", target_name) @@ [shell |-> shell]
          IN  IF ~prepared.ok
              THEN /\ command' = asked @@ [result |-> prepared.err]
                   /\ UNCHANGED <<activeVars, profile_config, repo, run>>
              ELSE /\ command' = asked @@ [result |-> "install"]
                   /\ set_active_profile(target_name, prepared.profiles)
                   /\ run' = [Idle EXCEPT !.cmd = "init", !.pc = "install"]
    /\ UNCHANGED <<selectVars, binaryVars, pureVars, workspace_config, machine, entries, latest,
                   now, diskVars, lockfile, tasks, attempt, outcome, before>>

\* The install the command in hand started has returned.
InstallReturned(status) ==
    /\ command.op \in {"use", "init"} /\ command.result = "install"
    /\ run.cmd = "idle" /\ now = command.at + 1
    /\ outcome.cmd = "install" /\ outcome.status = status

\* setup(shell): whether the shell is one it knows
setup(shell) == shell \in {S_zsh, S_bash, S_fish}

\* Workspace::init after self.install() has returned Ok: self.setup(shell)
Setup ==
    /\ command.op = "init" /\ InstallReturned("ok")
    /\ command' = [command EXCEPT !.result = IF setup(command.shell) THEN "Finished"
                                              ELSE "UnsupportedShell"]
    /\ UNCHANGED <<selectVars, toolsetVars, binaryVars, runVars, pureVars, repo, activeVars>>

NextUse ==
    \/ Next
    \/ UseProfile
    \/ InitWorkspace
    \/ Setup

\* The default profile declares one tool, at its latest release.
InitUse == Init /\ DOMAIN profile_config = {T_rg}

SpecUse == InitUse /\ [][NextUse]_vars

\* The use or init in hand has returned an error, and no command has run since.
CommandFailed ==
    /\ command.op \in {"use", "init"}
    /\ run.cmd = "idle"
    /\ \/ /\ command.result \in {"DoesNotExist", "NotARepository", "Mismatch",
                                  "AlreadyExists", "CloneFailed"}
          /\ now = command.at
       \/ command.result = "UnsupportedShell" /\ now = command.at + 1
       \/ InstallReturned("err") /\ ~outcome.changed_since

\* C40: if init or use_profile returns an error, the active profile recorded
\* in the workspace configuration, in memory and in config.toml, is the one
\* recorded before the call, and the symlinks tracked by the previous profile's
\* lockfile that were in place before the call are still in place.
C40_FailedSwitchKeepsProfileAndLinks ==
    CommandFailed =>
        /\ active_profile = command.was
        /\ \A l \in command.tracked : InPlace(l)

(***************************************************************************)
(* Extraction directories that hold more than the last archive put there.  *)
(***************************************************************************)
N_stale == <<"s", "t", "a", "l", "e">>

\* Between two runs something else writes a file into an extraction directory
\* (an archive unpacked by hand, a build run in place).
LeaveStaleFile ==
    /\ run.cmd = "idle"
    /\ now < MaxRuns
    /\ \E d \in DOMAIN cache :
          /\ cache[d].contents.exists
          /\ <<N_stale>> \notin cache[d].contents.tree
          /\ cache' = [cache EXCEPT ![d].contents.tree = @ \cup {<<N_stale>>}]
    /\ outcome' = [outcome EXCEPT !.changed_since = TRUE]
    /\ UNCHANGED <<profileVars, selectVars, toolsetVars, binaryVars, pureVars, latest, now,
                   lock_disk, bin_dir, share_dir, config_dir, dirs, run, lockfile, tasks,
                   attempt, before>>

NextStale ==
    \/ Next
    \/ LeaveStaleFile

\* The profile declares one tool, at its latest release.
InitStale == Init /\ DOMAIN profile_config = {T_rg}

SpecStale == InitStale /\ [][NextStale]_vars

(***************************************************************************)
(* Tools that declare the same link name.                                  *)
(***************************************************************************)
\* Before the first run the user makes fd declare the binary rg of its
\* archive, under the link name rg that the tool rg declares as well.
DeclareSameLink ==
    /\ run.cmd = "idle"
    /\ now = 0
    /\ {T_fd, T_rg} \subseteq DOMAIN profile_config
    /\ profile_config[T_fd].bin # <<ToolBinary(T_rg, None)>>
    /\ profile_config' = [profile_config EXCEPT ![T_fd].bin = <<ToolBinary(T_rg, None)>>]
    /\ outcome' = [outcome EXCEPT !.changed_since = TRUE]
    /\ UNCHANGED <<profileVars, selectVars, binaryVars, pureVars, workspace_config, machine,
                   entries, latest, now, diskVars, run, lockfile, tasks, attempt, before>>

NextShared ==
    \/ Next
    \/ DeclareSameLink

SpecShared == Init /\ [][NextShared]_vars

(***************************************************************************)
(* Properties of the runs.                                                 *)
(***************************************************************************)
\* The digest a tool's manifest entry declares.
DeclaredDigest(name) == parse_sha256(entries.v[name].definition.checksum.v).bytes

\* The archive at the final asset path has been found to have the declared digest.
Verified ==
    /\ run.cmd # "idle"
    /\ attempt.version_dir \in DOMAIN cache
    /\ asset_exists(cache, attempt.version_dir, asset_name)
    /\ Sha256(cache[attempt.version_dir].assets[asset_name])
          = DeclaredDigest(installer.name)
    /\ attempt.digest = DeclaredDigest(installer.name)

Extracts ==
    \E d \in DOMAIN cache \cap DOMAIN cache' : cache'[d].contents # cache[d].contents
LinksIn(dir, dir2) == \E k \in DOMAIN dir2 : k \notin DOMAIN dir \/ dir2[k] # dir[k]
Records == lockfile'.tool_receipts # lockfile.tool_receipts

AllReceipts ==
    Range(lockfile.tool_receipts)
    \cup (IF lock_disk.exists THEN Range(Lockfile_load(lock_disk).tool_receipts) ELSE {})

\* C1: in every GitHub install attempt, a step that extracts the archive, creates
\* a binary or extra symlink, or records the receipt is taken only when the digest
\* of the archive at the asset path has been found equal to the declared checksum;
\* and every receipt of a declared tool carries an AssetRecord.checksum that is the
\* declared digest.
C1_VerifiedBeforeExtractLinkRecord ==
    /\ [](run.pc \in {"extract", "bins", "extras", "record"} => Verified)
    /\ [](\A r \in AllReceipts :
             /\ r.asset.some
             /\ r.name \in DOMAIN entries.v
                   => r.asset.v.checksum = format_digest(DeclaredDigest(r.name)))
    /\ [][(run.cmd # "idle"
           /\ (Extracts \/ LinksIn(bin_dir, bin_dir') \/ LinksIn(share_dir, share_dir')
               \/ Records))
          => Verified]_vars

\* A receipt is about to be recorded after a retry, next to the receipt of a tool
\* whose manifest writes the digest in upper case.
C1_Witness ==
    /\ run.pc = "record"
    /\ attempt.retries = 1
    /\ Len(lockfile.tool_receipts) = 1
    /\ entries.v[lockfile.tool_receipts[1].name].definition.checksum.v = ChecksumOf("A")
    /\ lockfile.tool_receipts[1].asset.v.checksum = [i \in 1..HexLen |-> "a"]

\* The binary symlinks of a tool: those that point into its cache directory.
ToolLinks(dir, name) ==
    {k \in DOMAIN dir :
        dir[k].kind = "symlink" /\ dir[k].source[1] = sanitize_component(name)}

\* The run has just failed on a checksum, and nothing was changed from outside since.
MismatchFailure ==
    run.cmd = "idle" /\ outcome.detail = "ChecksumMismatch" /\ ~outcome.changed_since

MismatchHandled ==
    /\ outcome.status = "err"
    /\ outcome.retries = 1
    /\ outcome.downloads \in {1, 2}
    /\ outcome.expected = format_digest(DeclaredDigest(outcome.tool))
    /\ outcome.got \in {format_digest(Sha256(body)) : body \in Bodies}
    /\ outcome.got # outcome.expected
    /\ \A r \in Range(lockfile.tool_receipts) : r.name # outcome.tool
    /\ lock_disk = before.lock_disk

C3_FailedInstallLeavesLockfileAlone ==
    (run.cmd = "install"
        \/ (run.cmd = "idle" /\ outcome.cmd = "install" /\ outcome.status = "err"))
    => /\ lock_disk = before.lock_disk
       /\ \A r \in Range(lock_disk.document.tool_receipts) : r.installed_at # now

\* An install that failed after an earlier tool of the batch had succeeded, with a
\* lockfile of an earlier run on disk.
C3_Witness ==
    /\ run.cmd = "idle"
    /\ outcome.cmd = "install"
    /\ outcome.status = "err"
    /\ outcome.installed # <<>>
    /\ lock_disk.exists

Skipped(n) ==
    entries.v[n].definition.self_update \/ entries.v[n].definition.version.some
ReceiptsOf(file, n) == SelectSeq(file.document.tool_receipts, LAMBDA r : r.name = n)
LinksOf(dir, n) == [k \in ToolLinks(dir, n) |-> dir[k]]
CacheOf(c, n) == [d \in {d \in DOMAIN c : d[1] = sanitize_component(n)} |-> c[d]]

\* C10: after an update run, every tool that maintains itself or is pinned has the
\* receipts, the symlinks and the cache directory it had before the run; and when
\* every selected tool is skipped the lockfile is neither created nor rewritten.
C10_UpdateNeverTouchesSkippedTools ==
    (run.cmd = "idle" /\ outcome.cmd = "update" /\ entries.some /\ ~outcome.changed_since)
    => /\ \A n \in DOMAIN entries.v :
             Skipped(n) =>
                /\ ReceiptsOf(lock_disk, n) = ReceiptsOf(before.lock_disk, n)
                /\ LinksOf(bin_dir, n) = LinksOf(before.bin_dir, n)
                /\ LinksOf(share_dir, n) = LinksOf(before.share_dir, n)
                /\ CacheOf(cache, n) = CacheOf(before.cache, n)
       /\ outcome.detail = "NoCandidates" => lock_disk = before.lock_disk

\* The command and the request of the run in progress, or of the last run.
ThisCmd == IF run.cmd # "idle" THEN run.cmd ELSE outcome.cmd
ThisRequested == IF run.cmd # "idle" THEN run.requested ELSE outcome.requested

\* The run is an update that follows a successful update of the same request,
\* with nothing changed from outside in between or since.
SecondUpdateInARow ==
    /\ ThisCmd = "update"
    /\ before.prior.cmd = "update"
    /\ before.prior.status = "ok"
    /\ before.prior.requested = ThisRequested
    /\ ~before.prior.changed_since
    /\ ~outcome.changed_since

\* C11: the second of two updates in a row, with no release published and nothing
\* changed in between, executes no install task (no download, no extraction, no
\* symlink removed or created): it returns reporting its tools up to date and
\* leaves the directories, the cache and the lockfile as it found them.
C11_SecondUpdateDoesNoWork ==
    SecondUpdateInARow
    => /\ run.cmd = "idle"
       /\ outcome.status = "ok"
       /\ outcome.detail \in {"UpToDate", "NoTools", "NoCandidates", "NoInstallers"}
       /\ bin_dir = before.bin_dir
       /\ share_dir = before.share_dir
       /\ cache = before.cache
       /\ lock_disk = before.lock_disk

\* The tool symlinks a lockfile file lists, and those the run in hand has made.
Listed(file) ==
    IF file.exists
    THEN {[dir |-> e.dir, target |-> e.target] : e \in Range(tool_symlinks(Lockfile_load(file)))}
    ELSE {}
MadeByThisRun ==
    {[dir |-> e.dir, target |-> e.target] : e \in Range(tool_symlinks(lockfile))}
    \cup {[dir |-> "bin", target |-> l.target] : l \in Range(attempt.binary_links)}
    \cup {[dir |-> "share", target |-> l.target] : l \in Range(attempt.extra_links)}
OnDisk(e) == e.target \in DOMAIN (IF e.dir = "bin" THEN bin_dir ELSE share_dir)
InstallSucceeded ==
    /\ run.cmd = "idle" /\ outcome.cmd = "install" /\ outcome.status = "ok"
    /\ ~outcome.changed_since

\* C12: an install that finds a lockfile removes every symlink the lockfile lists
\* before it links anything and records into a new, empty Lockfile: while it runs,
\* a listed tool symlink that is on disk was made by this run and the lockfile in
\* memory holds receipts of this run only; after its success the saved lockfile
\* holds each config entry once and receipts of this run only, and no symlink
\* listed before the run and not listed now is left on disk.
C12_InstallStartsFromNothing ==
    /\ (run.cmd = "install" \/ InstallSucceeded)
       => /\ \A e \in Listed(before.lock_disk) : OnDisk(e) => e \in MadeByThisRun
          /\ \A r \in Range(lockfile.tool_receipts) : r.installed_at = now
    /\ InstallSucceeded
       => /\ lock_disk.exists
          /\ \A r \in Range(lock_disk.document.tool_receipts) :
                r.installed_at = now /\ r.name \in DOMAIN entries.v
          /\ \A i, j \in 1..Len(lock_disk.document.config_symlinks) :
                lock_disk.document.config_symlinks[i].target
                   = lock_disk.document.config_symlinks[j].target => i = j
          /\ \A c \in Range(lock_disk.document.config_symlinks) :
                c.target \in DOMAIN config_dir /\ config_dir[c.target].source = c.source
          /\ \A e \in Listed(before.lock_disk) : OnDisk(e) => e \in Listed(lock_disk)

\* A second install has succeeded after the user took out of the manifest a tool
\* whose receipt, with a binary and an extra, was in the lockfile the run found.
C12_Witness ==
    /\ InstallSucceeded
    /\ before.lock_disk.exists
    /\ \E r \in Range(before.lock_disk.document.tool_receipts) :
          /\ r.name \notin DOMAIN entries.v
          /\ r.binaries # <<>> /\ r.extras # <<>>
          /\ \A l \in Range(r.extras) : l.target \in DOMAIN before.share_dir

\* C13: after an uninstall that returned successfully no symlink the lockfile
\* recorded (config entry, binary, extra) exists, the lockfile does not exist, and
\* neither the state directory nor the cache directory exists.
C13_UninstallLeavesNothing ==
    (run.cmd = "idle" /\ outcome.cmd = "uninstall" /\ outcome.status = "ok"
        /\ ~outcome.changed_since)
    => /\ \A e \in Listed(before.lock_disk) : ~OnDisk(e)
       /\ \A c \in Range(before.lock_disk.document.config_symlinks) :
             c.target \notin DOMAIN config_dir
       /\ ~lock_disk.exists
       /\ dirs = {}
       /\ bin_dir = <<>> /\ share_dir = <<>> /\ cache = <<>>

\* The targets of the binary links a lockfile records.
BinaryTargets(lf) ==
    {l.target : l \in UNION {Range(r.binaries) : r \in Range(lf.tool_receipts)}}
\* The step of a run that prunes the bin directory as the last task left it.
PrunesBin == run.pc = "record" /\ run'.cmd = "idle"

\* C14: prune_unused_bin removes an entry of the bin directory if and only if the
\* entry is a symlink and is not the target of a binary link the lockfile records;
\* every other entry (a file of the user's, a recorded link) is left as it was, and
\* nothing is added.
C14_PruneBinRemovesExactlyStaleSymlinks ==
    [][PrunesBin
       => /\ \A k \in DOMAIN bin_dir :
                k \notin DOMAIN bin_dir'
                   <=> (bin_dir[k].kind = "symlink" /\ k \notin BinaryTargets(lockfile'))
          /\ \A k \in DOMAIN bin_dir' : k \in DOMAIN bin_dir /\ bin_dir'[k] = bin_dir[k]]_vars

\* A run has just pruned: a symlink no lockfile listed is gone, a file of the
\* user's and a recorded link are still there.
C14_Witness ==
    /\ run.cmd = "idle" /\ outcome.status = "ok" /\ outcome.detail = "Finished"
    /\ ~outcome.changed_since
    /\ \E k \in DOMAIN before.bin_dir :
          /\ before.bin_dir[k].kind = "symlink"
          /\ [dir |-> "bin", target |-> k] \notin Listed(before.lock_disk)
          /\ k \notin DOMAIN bin_dir
    /\ \E k \in DOMAIN bin_dir : bin_dir[k].kind = "file"
    /\ \E k \in DOMAIN bin_dir :
          bin_dir[k].kind = "symlink" /\ k \in BinaryTargets(Lockfile_load(lock_disk))

\* The tool and version directories on the parent chain of a recorded binary source.
OnChain(file) ==
    {SubSeq(l.source, 1, n) :
        n \in 1..2,
        l \in UNION {Range(r.binaries) : r \in Range(file.document.tool_receipts)}}

\* C15: after a successful install the directories under cache/tools are exactly
\* those on the parent chain of the source of a binary link of the saved lockfile:
\* every other version directory is gone, every directory on a chain is there, and
\* no tool directory is left without a version directory.
C15_PruneCacheSound ==
    InstallSucceeded
    => /\ \A d \in DOMAIN cache : Len(d) = 2 => d \in OnChain(lock_disk)
       /\ \A d \in OnChain(lock_disk) : d \in DOMAIN cache
       /\ \A d \in DOMAIN cache :
             Len(d) = 1 => \E v \in DOMAIN cache : Len(v) = 2 /\ v[1] = d[1]

\* An install has succeeded that found the version directory of a tool no longer
\* installed and the version directory of a tool it installed again.
C15_Witness ==
    /\ InstallSucceeded
    /\ \E d \in DOMAIN before.cache :
          Len(d) = 2 /\ d \notin DOMAIN cache /\ <<d[1]>> \notin DOMAIN cache
    /\ \E d \in DOMAIN before.cache : Len(d) = 2 /\ d \in DOMAIN cache

\* Every path of a lockfile value is text.
TextPaths(lf) ==
    /\ \A c \in Range(lf.config_symlinks) : to_str(c.source).some /\ to_str(c.target).some
    /\ \A r \in Range(lf.tool_receipts) :
          /\ \A l \in Range(r.binaries) : to_str(l.source).some /\ to_str(<<l.target>>).some
          /\ \A l \in Range(r.extras) : to_str(l.source).some /\ to_str(l.target).some
          /\ r.asset.some =>
                to_str(r.asset.v.archive_path).some /\ to_str(r.asset.v.extract_dir).some

SaveCalled == call.op = "save" /\ DOMAIN returned # {}

\* C16 as stated: for every lockfile value, save followed by load yields a lockfile
\* with the same sequence of config_symlinks and the same sequence of
\* tool_receipts (same elements, same order, same field values).
C16_EveryValueRoundTrips ==
    SaveCalled =>
        /\ returned.saved
        /\ returned.loaded.some =>
              /\ returned.loaded.v.config_symlinks = call.lf.config_symlinks
              /\ returned.loaded.v.tool_receipts = call.lf.tool_receipts

\* C16: for every lockfile value whose paths are all text, save succeeds and save
\* followed by load yields a lockfile with the same sequence of config_symlinks
\* and the same sequence of tool_receipts (same elements, same order, same field
\* values); for a value with a path that is not text, save fails and the file
\* is as it was before.
C16_TextValueRoundTrips ==
    SaveCalled =>
        /\ returned.saved <=> TextPaths(call.lf)
        /\ ~returned.saved => lock_disk = returned.on_disk
        /\ returned.loaded.some =>
              /\ returned.loaded.v.config_symlinks = call.lf.config_symlinks
              /\ returned.loaded.v.tool_receipts = call.lf.tool_receipts

\* A value of two config symlinks and of three receipts, with and without asset
\* and extras, was saved over an older file and loaded.
C16_Witness ==
    /\ SaveCalled /\ returned.loaded.some /\ returned.on_disk.exists
    /\ Len(call.lf.config_symlinks) = 2 /\ Len(call.lf.tool_receipts) = 3
    /\ \E r \in Range(returned.loaded.v.tool_receipts) : r.asset.some /\ r.extras # <<>>
    /\ \E r \in Range(returned.loaded.v.tool_receipts) : ~r.asset.some

Sanitized == call.op = "sanitize_component" /\ DOMAIN returned # {}
Matching(ch) == is_ascii_alphanumeric(ch) \/ ch \in {".", "-", "_"}
OnlyDashes(value) == \A i \in 1..Len(value) : value[i] = "-" \/ ~Matching(value[i])

\* The input with every run of non-matching characters written as one dash.
RECURSIVE RunsAsDashes(_)
RunsAsDashes(value) ==
    IF value = <<>> THEN <<>>
    ELSE LET n == Len(value)
             front == RunsAsDashes(SubSeq(value, 1, n - 1))
         IN  IF Matching(value[n]) THEN Append(front, value[n])
             ELSE IF n > 1 /\ ~Matching(value[n - 1]) THEN front
             ELSE Append(front, "-")

\* C17 as stated: sanitize_component returns "default" for the empty string and
\* for any input that sanitizes to only dashes; for every other input the result
\* contains only characters from [A-Za-z0-9._-], allowed characters are kept in
\* place, and each run of non-matching characters becomes a single dash.
C17_RunBecomesSingleDash ==
    Sanitized =>
        IF OnlyDashes(call.value)
        THEN returned.value = <<"d", "e", "f", "a", "u", "l", "t">>
        ELSE /\ \A i \in 1..Len(returned.value) : Matching(returned.value[i])
             /\ returned.value = RunsAsDashes(call.value)

\* C17: sanitize_component returns "default" for the empty string and for any
\* input that sanitizes to only dashes; for every other input the result has the
\* length of the input and contains only characters from [A-Za-z0-9._-]: an
\* allowed character is kept in place and every non-matching character becomes
\* one dash in its place.
C17_CharacterBecomesDash ==
    Sanitized =>
        IF OnlyDashes(call.value)
        THEN returned.value = <<"d", "e", "f", "a", "u", "l", "t">>
        ELSE /\ Len(returned.value) = Len(call.value)
             /\ \A i \in 1..Len(call.value) :
                   /\ Matching(returned.value[i])
                   /\ returned.value[i] = IF Matching(call.value[i]) THEN call.value[i]
                                          ELSE "-"

\* An input with a run of two non-matching characters after an allowed one was
\* sanitized.
C17_Witness ==
    /\ Sanitized /\ Len(call.value) = 3 /\ Matching(call.value[1])
    /\ call.value[1] # "-" /\ ~Matching(call.value[2]) /\ ~Matching(call.value[3])
    /\ returned.value = <<call.value[1], "-", "-">>

\* The version the manifest gives for a tool, if any.
Pin(name) == entries.v[name].definition.version
S_latest == <<"l", "a", "t", "e", "s", "t">>

\* C18: every ToolReceipt recorded by an install has resolved_version equal to
\* the tag_name of the release the forge returned for that attempt (the pinned
\* tag, or the tag that was the latest one then), never the symbolic "latest";
\* manifest_version is the manifest's pin, or "latest" when the manifest gives
\* no version.
C18_ReceiptVersions ==
    [][run.pc = "record" =>
          /\ Cardinality({i \in DOMAIN lockfile'.tool_receipts :
                             lockfile'.tool_receipts[i].name = installer.name}) = 1
          /\ \A r \in Range(lockfile'.tool_receipts) :
                r.name = installer.name =>
                   /\ r.resolved_version = attempt.release.tag_name
                   /\ r.resolved_version = IF Pin(r.name).some THEN Pin(r.name).v ELSE latest
                   /\ r.resolved_version # S_latest
                   /\ r.manifest_version = IF Pin(r.name).some THEN Pin(r.name).v
                                           ELSE S_latest]_vars

\* An install has saved the receipt of a tool without a pin, resolved to the
\* release published since the run before, next to the receipt of a pinned tool.
C18_Witness ==
    /\ InstallSucceeded /\ latest = V_2
    /\ \E r \in Range(lock_disk.document.tool_receipts) :
          ~Pin(r.name).some /\ r.manifest_version = S_latest /\ r.resolved_version = V_2
    /\ \E r \in Range(lock_disk.document.tool_receipts) :
          Pin(r.name).some /\ r.manifest_version = V_1 /\ r.resolved_version = V_1

Validated == call.op = "validate" /\ DOMAIN returned # {}
ChecksumIssues ==
    Range(returned.issues)
    \cap {"checksum must be formatted as sha256:<64 hex characters>",
          "checksum must not be empty", "checksum is required for this installer"}

\* `sha256:` followed by exactly 64 hexadecimal characters.
WellFormed(value) ==
    /\ Len(value) = Len(S_sha256) + 64
    /\ SubSeq(value, 1, Len(S_sha256)) = S_sha256
    /\ \A i \in (Len(S_sha256) + 1)..Len(value) : value[i] \in HexDigits

\* C19 as stated: manifest validation never raises and returns a list of issues;
\* for a spec whose installer is github, gitlab or script it reports an issue
\* when checksum is absent, and for any installer it reports an issue when a
\* present checksum is not `sha256:` followed by exactly 64 hexadecimal
\* characters; a spec with a well-formed checksum gets no checksum issue.
C19_MalformedChecksumReported ==
    Validated =>
        LET spec == call.spec
        IN  /\ returned.issues \in Seq(STRING)
            /\ (~spec.checksum.some /\ spec.installer \in {"github", "gitlab", "script"})
                  => "checksum is required for this installer" \in ChecksumIssues
            /\ (spec.checksum.some /\ ~WellFormed(spec.checksum.v)) => ChecksumIssues # {}
            /\ (spec.checksum.some /\ WellFormed(spec.checksum.v)) => ChecksumIssues = {}

\* C19: manifest validation never raises and returns a list of issues; for a
\* spec whose installer is github, gitlab or script it reports an issue when
\* checksum is absent, and for any installer it reports an issue when a present
\* checksum is not, once the white space around it is trimmed, `sha256:`
\* followed by exactly 64 hexadecimal characters; a spec whose checksum is
\* well-formed after trimming gets no checksum issue, and neither does a spec of
\* another installer without checksum.
C19_ChecksumIssues ==
    Validated =>
        LET spec == call.spec
        IN  /\ returned.issues \in Seq(STRING)
            /\ ~spec.checksum.some =>
                  IF spec.installer \in {"github", "gitlab", "script"}
                  THEN ChecksumIssues = {"checksum is required for this installer"}
                  ELSE ChecksumIssues = {}
            /\ (spec.checksum.some /\ ~WellFormed(trim(spec.checksum.v)))
                  => ChecksumIssues # {}
            /\ (spec.checksum.some /\ WellFormed(trim(spec.checksum.v)))
                  => ChecksumIssues = {}

\* A github spec whose checksum has 63 hexadecimal characters was validated, and
\* the issues of its bin and extras entries came with the checksum issue.
C19_Witness ==
    /\ Validated /\ call.spec.installer = "github" /\ call.spec.checksum.some
    /\ Len(call.spec.checksum.v) = Len(S_sha256) + 63
    /\ ChecksumIssues = {"checksum must be formatted as sha256:<64 hex characters>"}
    /\ Len(returned.issues) > 3

\* Both invocations have returned from an install or an update without error.
BothFinished ==
    /\ run.cmd = "idle" /\ suspended.run.cmd = "idle"
    /\ outcome.status = "ok" /\ outcome.cmd \in {"install", "update"}
    /\ suspended.outcome.status = "ok" /\ suspended.outcome.cmd \in {"install", "update"}

\* Nobody but the two invocations has touched the manifest or the bin directory.
Untouched ==
    /\ T_rg \in DOMAIN profile_config
    /\ \A k \in DOMAIN bin_dir : bin_dir[k].kind = "symlink"

\* The binary links of the saved lockfile and the symlinks of the bin directory,
\* as pairs of link name and source path.
RecordedLinks ==
    IF ~lock_disk.exists THEN {}
    ELSE UNION {{<<b.target, b.source>> : b \in Range(r.binaries)} :
                   r \in Range(Lockfile_load(lock_disk).tool_receipts)}
LinksOnDisk ==
    {<<k, bin_dir[k].source>> : k \in {n \in DOMAIN bin_dir : bin_dir[n].kind = "symlink"}}

\* C20: no mutual exclusion protects concurrent invocations: when two
\* install/update runs over the same workspace interleave, a state is reachable
\* in which both runs have finished and the saved lockfile does not describe the
\* symlinks on disk (a recorded binary link is missing, or a link on disk is not
\* recorded); such a state comes from the interleaving: two runs of which none
\* was stopped in the middle leave the lockfile and the bin directory in
\* agreement.
C20_MismatchComesFromInterleaving ==
    (BothFinished /\ Untouched /\ RecordedLinks # LinksOnDisk) => suspended.overlapped

\* Two runs have interleaved and both have finished without error: the saved
\* lockfile records a binary link that is not on disk, and the link on disk is
\* not in the saved lockfile.
C20_Witness ==
    /\ BothFinished /\ Untouched /\ suspended.overlapped
    /\ outcome.detail = "Finished" /\ suspended.outcome.detail = "Finished"
    /\ RecordedLinks \ LinksOnDisk # {}
    /\ LinksOnDisk \ RecordedLinks # {}

\* The rank tuple of asset a is strictly above that of asset b: a higher score,
\* or the same score and a smaller size, or the same score and size and a name
\* that sorts earlier.
Outranks(a, b) ==
    LET score(x) == AssetRank(x).score
    IN  \/ score(a) > score(b)
        \/ score(a) = score(b) /\ a.size < b.size
        \/ score(a) = score(b) /\ a.size = b.size /\ str_cmp(a.name, b.name) = "Less"

\* The candidates of filter k that outrank every other candidate of the filter.
StrictMaxima(k) ==
    {i \in Candidates(k) : \A j \in Candidates(k) \ {i} : Outranks(assets[i], assets[j])}

\* C21: among the assets matching the winning filter, select_asset ranks the
\* candidates by the tuple (score, size descending, name descending), that is
\* (score, Reverse(size), Reverse(name)), and returns the candidate whose tuple
\* is the strict maximum: the highest score, then the smallest size, then the
\* name that sorts first; a filter with a strict maximum returns it.
C21_WinnerIsStrictMaximum ==
    /\ (SelectDone /\ selected.status = "ok") =>
          \E i \in StrictMaxima(selected.pattern_index + 1) : assets[i] = selected.asset
    /\ (SelectDone /\ assets # <<>> /\ Deciding # {}
          /\ (\A k \in 1..FirstDeciding : Regex_new(filters[k]))
          /\ StrictMaxima(FirstDeciding) # {}) =>
          /\ selected.status = "ok"
          /\ \E i \in StrictMaxima(FirstDeciding) : assets[i] = selected.asset

\* The returned asset has the score of two other candidates: it won against one
\* by its smaller size and against the other by its name.
C21_Witness ==
    /\ selected.status = "ok"
    /\ LET k == selected.pattern_index + 1
           w == selected.asset
       IN  /\ \E j \in Candidates(k) :
                 AssetRank(assets[j]).score = AssetRank(w).score /\ assets[j].size > w.size
           /\ \E j \in Candidates(k) :
                 /\ AssetRank(assets[j]).score = AssetRank(w).score
                 /\ assets[j].size = w.size /\ assets[j].name # w.name

\* The release's assets listed in another order.
Reordered(p) == [i \in 1..Len(assets) |-> assets[p[i]]]

\* C38: the outcome of select_asset (the selected asset and pattern index, or
\* the kind of error) is the same for every order in which the release lists
\* its assets, and the ambiguity error is raised exactly when the maximal rank
\* among the candidates of the first matching filter is attained by two or
\* more assets; a tie among lower-ranked candidates never causes it.
C38_OutcomeIgnoresAssetOrder ==
    SelectDone =>
        /\ \A p \in Permutations(1..Len(assets)) :
              select_asset(Reordered(p), filters) = selected
        /\ selected = SelectErr("Ambiguous") <=>
              /\ assets # <<>>
              /\ Deciding # {}
              /\ \A k \in 1..FirstDeciding : Regex_new(filters[k])
              /\ Cardinality(MaxRanked(FirstDeciding)) >= 2

\* An asset was returned although two candidates of the winning filter, listed
\* before it, have equal ranks below the winner's.
C38_Witness ==
    /\ SelectDone
    /\ selected.status = "ok"
    /\ LET k == selected.pattern_index + 1
       IN  \E i, j \in Candidates(k) :
               /\ i < j
               /\ AssetRank_cmp(AssetRank(assets[i]), AssetRank(assets[j])) = "Equal"
               /\ \E w \in Candidates(k) : j < w /\ assets[w] = selected.asset

VersionDirComputed == call.op = "version_dir" /\ DOMAIN returned # {}

\* The directory a path names, as components below cache_root: `.` stays where
\* it is and `..` goes to the parent.
RECURSIVE Resolved(_, _)
Resolved(at, parts) ==
    IF parts = <<>> THEN at
    ELSE LET c == Head(parts)
             next == CASE c = <<".">> -> at
                       [] c = <<".", ".">> ->
                            IF at = <<>> THEN at ELSE SubSeq(at, 1, Len(at) - 1)
                       [] OTHER -> Append(at, c)
         IN  Resolved(next, Tail(parts))

\* C39: for every tool name and every resolved release tag the per-version
\* cache directory of an install is exactly two levels below cache_root/tools:
\* both of its components are non-empty and neither is `.` or `..`, so the
\* directory created, extracted into and cleared lies under cache_root/tools.
C39_VersionDirTwoLevelsBelowTools ==
    VersionDirComputed =>
        /\ Len(returned.dir) = 2
        /\ \A i \in 1..2 : returned.dir[i] \notin {<<>>, <<".">>, <<".", ".">>}
        /\ Resolved(<<S_tools>>, returned.dir) = <<S_tools>> \o returned.dir

Ranked == call.op = "rank" /\ DOMAIN returned # {}

\* One of the words occurs in the name, letters compared without regard to case.
Occurs(words, name) ==
    \E word \in words : \E i \in 0..(Len(name) - Len(word)) :
        \A j \in 1..Len(word) : to_ascii_lowercase_char(name[i + j]) = word[j]

\* The bonus of the extension the name ends with.
ExtensionBonus(name) ==
    LET Ends(ext) == Len(ext) <= Len(name) /\ \A j \in 1..Len(ext) :
                        name[Len(name) - Len(ext) + j] = ext[j]
    IN  CASE Ends(<<".", "t", "a", "r", ".", "g", "z">>) -> 30
          [] Ends(<<".", "t", "a", "r", ".", "x", "z">>) -> 30
          [] Ends(<<".", "t", "g", "z">>) -> 25
          [] Ends(<<".", "z", "i", "p">>) -> 20
          [] Ends(<<".", "t", "a", "r">>) -> 15
          [] OTHER -> 5

\* The architecture and platform bonuses, each with the words that earn it.
PlatformBonuses ==
    {[words |-> {S_x86_64, <<"a", "m", "d", "6", "4">>}, bonus |-> 10],
     [words |-> {<<"a", "r", "m", "6", "4">>, S_aarch64}, bonus |-> 7],
     [words |-> {S_linux}, bonus |-> 5],
     [words |-> {<<"a", "p", "p", "l", "e">>, S_darwin, S_macos}, bonus |-> 5]}

RECURSIVE SumOfBonuses(_)
SumOfBonuses(S) ==
    IF S = {} THEN 0
    ELSE LET b == CHOOSE x \in S : TRUE IN b.bonus + SumOfBonuses(S \ {b})

\* C22: the score of an asset is 100 if its state is uploaded or available
\* (else 0), plus the bonus of its extension (.tar.gz and .tar.xz 30, .tgz 25,
\* .zip 20, .tar 15, anything else 5), plus the sum of every architecture or
\* platform bonus one of whose words occurs in the name without regard to case
\* (x86_64 or amd64 10, arm64 or aarch64 7, linux 5, apple or darwin or macos 5).
C22_ScoreIsSumOfBonuses ==
    Ranked =>
        returned.rank.score =
            (IF call.asset.state \in {"uploaded", "available"} THEN 100 ELSE 0)
            + ExtensionBonus(call.asset.name)
            + SumOfBonuses({b \in PlatformBonuses : Occurs(b.words, call.asset.name)})

\* An available asset named tX86_64Linux.tar.gz scored 100 + 30 + 10 + 5.
C22_Witness ==
    /\ Ranked
    /\ call.asset.state = "available"
    /\ Occurs({S_x86_64}, call.asset.name) /\ Occurs({S_linux}, call.asset.name)
    /\ ExtensionBonus(call.asset.name) = 30
    /\ returned.rank.score = 145

\* Every filter compiles and none matches the name of any asset.
NothingMatches ==
    \A k \in 1..Len(filters) : Regex_new(filters[k]) /\ Candidates(k) = {}

\* A filter that does not compile is reached: no filter before it matched.
BadFilterReached ==
    \E k \in 1..Len(filters) :
        /\ ~Regex_new(filters[k])
        /\ \A j \in 1..(k - 1) : Regex_new(filters[j]) /\ Candidates(j) = {}

\* C23: select_asset fails with the error No release asset matched exactly when
\* every filter compiles and none matches any asset name; an empty filter list
\* and an empty asset list are each rejected with their own error before any
\* matching, whatever the filters are; a filter that does not compile fails the
\* selection exactly when it is reached.
C23_SelectionErrors ==
    SelectDone =>
        /\ (filters = <<>> \/ assets = <<>>) =>
              /\ selected.status = "err" /\ selected.err \in {"NoFilters", "NoAssets"}
              /\ selected.err = "NoFilters" => filters = <<>>
              /\ selected.err = "NoAssets" => assets = <<>>
        /\ (filters # <<>> /\ assets # <<>>) =>
              /\ selected = SelectErr("NoMatch") <=> NothingMatches
              /\ selected = SelectErr("InvalidRegex") <=> BadFilterReached
              /\ selected.status = "err" => selected.err \notin {"NoFilters", "NoAssets"}

\* Two filters that compile and three assets, none matched: No release asset
\* matched.
C23_Witness ==
    /\ selected = SelectErr("NoMatch")
    /\ Len(filters) = MaxFilters /\ Len(assets) = MaxAssets
    /\ filters[1] # filters[2]

\* The entry as the manifest holds it passes the filters: its platform list is
\* empty or shares an element with the platform tags, and its hosts list is
\* empty or contains the host slug.
AppliesAsWritten(config, n) ==
    /\ n \in DOMAIN config
    /\ \/ config[n].platforms = <<>>
       \/ Range(config[n].platforms) \cap platform_tags(machine) # {}
    /\ \/ config[n].hosts = <<>>
       \/ host_slug(machine) \in Range(config[n].hosts)

\* The same with every filter value trimmed and lower-cased first.
AppliesNormalized(config, n) ==
    LET Values(fs) == {to_ascii_lowercase(trim(fs[i])) : i \in 1..Len(fs)}
    IN  /\ n \in DOMAIN config
        /\ \/ config[n].platforms = <<>>
           \/ Values(config[n].platforms) \cap platform_tags(machine) # {}
        /\ \/ config[n].hosts = <<>>
           \/ host_slug(machine) \in Values(config[n].hosts)

\* C24 as stated: a tool spec applies exactly when its platform list is empty
\* or shares an element with the platform tags, and its hosts list is empty or
\* contains the host slug; the resolved tool set contains a name if and only if
\* one of its profile or workspace entries applies.
C24_ResolvedIffEntryAppliesAsWritten ==
    entries.some =>
        \A n \in DOMAIN profile_config \cup DOMAIN workspace_config :
            n \in DOMAIN entries.v <=>
                AppliesAsWritten(profile_config, n) \/ AppliesAsWritten(workspace_config, n)

\* C24: with every platform and host filter value trimmed and lower-cased, a
\* tool spec applies exactly when its platform list is empty or shares an
\* element with the platform tags, and its hosts list is empty or contains the
\* host slug; the resolved tool set contains a name if and only if one of its
\* profile or workspace entries applies.
C24_ResolvedIffEntryApplies ==
    entries.some =>
        /\ DOMAIN entries.v \subseteq DOMAIN profile_config \cup DOMAIN workspace_config
        /\ \A n \in DOMAIN profile_config \cup DOMAIN workspace_config :
              n \in DOMAIN entries.v <=>
                  AppliesNormalized(profile_config, n) \/ AppliesNormalized(workspace_config, n)

\* rg is resolved through a profile entry with a platform and a host filter
\* that pass once normalised and not as written; fd is declared with a filter
\* that does not pass and is not resolved.
C24_Witness ==
    /\ entries.some
    /\ T_rg \in DOMAIN entries.v /\ T_rg \notin DOMAIN workspace_config
    /\ profile_config[T_rg].platforms # <<>> /\ profile_config[T_rg].hosts # <<>>
    /\ AppliesNormalized(profile_config, T_rg) /\ ~AppliesAsWritten(profile_config, T_rg)
    /\ T_fd \in DOMAIN profile_config /\ T_fd \notin DOMAIN entries.v

\* An update run has built and filtered its tasks and has executed none yet.
UpdateStarted ==
    /\ run.cmd = "update" /\ run.pc = "fetch" /\ run.installed = <<>>
    /\ ~outcome.changed_since

\* The tools the update run considers: selected, not self-updating, not pinned,
\* with an installer backend.
UpdateCandidates ==
    LET names == IF run.requested.some THEN <<run.requested.v>>
                 ELSE sorted_names(DOMAIN entries.v)
    IN  {d.name : d \in {c \in Range(candidates_of(entries.v, names)) :
                            create_installer(c.definition).some}}

\* The lockfile the run found has a receipt for the tool at the version the
\* tool resolves to, and every binary source and target the receipt records
\* exists, the target being a symlink.
AlreadyCurrent(n) ==
    /\ before.lock_disk.exists
    /\ LET receipts == {r \in Range(Lockfile_load(before.lock_disk).tool_receipts) :
                          r.name = n}
       IN  /\ receipts # {}
           /\ \A r \in receipts :
                 /\ r.resolved_version = latest
                 /\ \A i \in 1..Len(r.binaries) :
                       /\ cache_path_exists(before.cache, r.binaries[i].source)
                       /\ bin_target(before.bin_dir, before.cache,
                                     r.binaries[i].target).exists
                       /\ bin_target(before.bin_dir, before.cache,
                                     r.binaries[i].target).is_symlink

\* C25: an update candidate whose receipt in the previous lockfile has the
\* resolved version and whose recorded binary sources and targets all exist,
\* the targets being symlinks, is skipped as already current; a candidate whose
\* version matches with a path missing or a target that is no symlink, or whose
\* recorded version differs, is reinstalled.
C25_SkippedExactlyWhenCurrent ==
    UpdateStarted =>
        \A n \in UpdateCandidates :
            (\E i \in 1..Len(tasks) : tasks[i].name = n) <=> ~AlreadyCurrent(n)

\* The tools whose install task of the run in hand has not begun.
PendingTools ==
    {tasks[i].name : i \in (IF run.pc = "fetch" THEN 1 ELSE 2)..Len(tasks)}

\* The symlinks the lockfile found by the run records for the tool.
PriorEntries(n) ==
    IF before.lock_disk.exists
    THEN {e \in Range(tool_symlinks(Lockfile_load(before.lock_disk))) : e.name = n}
    ELSE {}

UpdateSucceeded ==
    /\ run.cmd = "idle" /\ outcome.cmd = "update" /\ outcome.status = "ok"
    /\ outcome.installed # <<>> /\ ~outcome.changed_since

\* C26: in an update run, before the install task of a tool begins, the
\* symlinks of the tool's prior receipts are gone and the lockfile in memory has
\* no receipt of the tool; the lockfile saved by a successful update holds
\* exactly one receipt of each reinstalled tool, and the receipts of every other
\* tool as the run found them.
C26_PriorReceiptsDroppedBeforeReinstall ==
    /\ run.cmd = "update" =>
          \A n \in PendingTools :
              /\ \A i \in 1..Len(lockfile.tool_receipts) : lockfile.tool_receipts[i].name # n
              /\ \A e \in PriorEntries(n) :
                    e.target \notin DOMAIN (IF e.dir = "bin" THEN bin_dir ELSE share_dir)
    /\ UpdateSucceeded =>
          \A n \in {T_rg, T_fd, T_jq} :
              IF n \in Range(outcome.installed)
              THEN Len(ReceiptsOf(lock_disk, n)) = 1
              ELSE ReceiptsOf(lock_disk, n) = ReceiptsOf(before.lock_disk, n)

\* An update has reinstalled a tool that had a receipt and symlinks, another
\* tool's receipt was in the lockfile the run found.
C26_Witness ==
    /\ UpdateSucceeded
    /\ \E n \in Range(outcome.installed) :
          /\ PriorEntries(n) # {}
          /\ \E m \in {T_rg, T_fd, T_jq} \ Range(outcome.installed) :
                /\ ReceiptsOf(before.lock_disk, m) # <<>>
                /\ ReceiptsOf(lock_disk, m) = ReceiptsOf(before.lock_disk, m)
                /\ ReceiptsOf(lock_disk, n) # ReceiptsOf(before.lock_disk, n)

\* The resolved tools whose installer kind has a backend, and those without.
Supported == {n \in DOMAIN entries.v : entries.v[n].definition.installer = "github"}
Unsupported == DOMAIN entries.v \ Supported

RunEnded ==
    /\ run.cmd = "idle" /\ outcome.cmd \in {"install", "update"}
    /\ entries.some /\ ~outcome.changed_since

\* What made the run fail: the task of a tool with a backend, the construction
\* of the installer of such a tool, a request for a tool that is not defined, or
\* the writing of the lockfile.
FailureCause ==
    \/ outcome.tool \in Supported
    \/ /\ outcome.tool = <<>>
       /\ \E n \in Supported :
             LET r == GithubInstaller_new(entries.v[n].definition)
             IN  ~r.ok /\ r.err = outcome.detail
    \/ /\ outcome.detail = "UndefinedTool"
       /\ outcome.requested.some /\ outcome.requested.v \notin DOMAIN entries.v
    \/ outcome.detail = "SaveFailed"

\* The tools a finished run had to install.
Remaining ==
    IF outcome.cmd = "install" THEN Supported
    ELSE {n \in Supported :
            /\ outcome.requested.some => outcome.requested.v = n
            /\ ~Skipped(n)}

RecordedDirs(lf) ==
    {SubSeq(l.source, 1, n) :
        n \in 1..2,
        l \in UNION {Range(r.binaries) \cup Range(r.extras) : r \in Range(lf.tool_receipts)}}

\* C28 as stated: prune never removes an entry the lockfile does not record:
\* every entry of the bin directory that is not a recorded target and every
\* cache directory no recorded source lies in is still there after the prune.
C28_UnrecordedEntriesAreLeftInPlace ==
    [][PrunesBin
       => /\ \A k \in DOMAIN bin_dir :
                k \notin BinaryTargets(lockfile') => k \in DOMAIN bin_dir'
          /\ \A d \in DOMAIN cache :
                d \notin RecordedDirs(lockfile') => d \in DOMAIN cache']_vars

\* C28: prune never removes an entry the lockfile records, nor an entry of the
\* bin directory that is not a symlink: every recorded link target, every file
\* or directory in the bin directory and every cache directory a recorded
\* source lies in is left as it was; what prune_unused_bin removes is a symlink
\* that is not recorded, what prune_unused_cache removes is a directory no
\* recorded source lies in, and the share and config directories are not touched.
C28_RecordedEntriesAndFilesAreLeftInPlace ==
    [][PrunesBin
       => /\ \A k \in DOMAIN bin_dir :
                (k \in BinaryTargets(lockfile') \/ bin_dir[k].kind # "symlink")
                   => k \in DOMAIN bin_dir' /\ bin_dir'[k] = bin_dir[k]
          /\ \A d \in DOMAIN cache :
                d \in RecordedDirs(lockfile') => d \in DOMAIN cache' /\ cache'[d] = cache[d]
          /\ \A k \in DOMAIN bin_dir \ DOMAIN bin_dir' :
                bin_dir[k].kind = "symlink" /\ k \notin BinaryTargets(lockfile')
          /\ \A d \in DOMAIN cache \ DOMAIN cache' : d \notin RecordedDirs(lockfile')
          /\ share_dir' = share_dir /\ config_dir' = config_dir]_vars

\* A run has just pruned: a version directory no recorded source lies in is
\* gone, the directory of the recorded sources, the recorded link and a file of
\* the user's in the bin directory are still there.
C28_Witness ==
    /\ run.cmd = "idle" /\ outcome.status = "ok" /\ outcome.detail = "Finished"
    /\ ~outcome.changed_since
    /\ \E d \in DOMAIN before.cache :
          Len(d) = 2 /\ d \notin DOMAIN cache
          /\ d \notin RecordedDirs(Lockfile_load(lock_disk))
    /\ \E d \in RecordedDirs(Lockfile_load(lock_disk)) : Len(d) = 2 /\ d \in DOMAIN cache
    /\ \E k \in DOMAIN bin_dir : bin_dir[k].kind = "file" /\ k \in DOMAIN before.bin_dir
    /\ \E k \in BinaryTargets(Lockfile_load(lock_disk)) :
          k \in DOMAIN bin_dir /\ bin_dir[k].kind = "symlink"

\* The step writes the lockfile file.
WritesLockfile == lock_disk'.exists /\ lock_disk' # lock_disk

\* The config entries the lockfile in memory records are linked on disk.
ConfigLinked ==
    /\ lockfile.config_symlinks # <<>>
    /\ \A c \in Range(lockfile.config_symlinks) :
          /\ c.target \in DOMAIN config_dir
          /\ config_dir[c.target] = [kind |-> "symlink", source |-> c.source]

InstalledOnce == call.op = "link" /\ "first" \in DOMAIN returned
InstalledTwice == call.op = "link" /\ "second" \in DOMAIN returned

\* What occupies the target before the call: nothing, a file, a directory, a
\* symlink, or a broken symlink.
Occupant ==
    IF call.target \notin DOMAIN call.fs THEN "nothing"
    ELSE IF call.fs[call.target].kind # "symlink" THEN call.fs[call.target].kind
    ELSE IF Path_exists(call.fs, call.target) THEN "symlink"
    ELSE "broken symlink"

\* The directory with a symlink to the source at the target, all else as it was.
Replaced ==
    [k \in DOMAIN call.fs \cup {call.target} |->
        IF k = call.target THEN [kind |-> "symlink", source |-> call.source]
        ELSE call.fs[k]]

\* C30: the link primitive replaces what occupies the target (nothing, a
\* regular file, a symlink or a broken symlink) with a symlink to the source and
\* leaves every other entry as it was; it is idempotent: applied twice with the
\* same source and target it leaves the state it leaves when applied once.
C30_LinkReplacesAndIsIdempotent ==
    /\ (InstalledOnce /\ Occupant \in {"nothing", "file", "symlink", "broken symlink"}) =>
          returned.first.ok /\ returned.first.fs = Replaced
    /\ InstalledTwice =>
          /\ returned.second.ok = returned.first.ok
          /\ returned.second.fs = returned.first.fs

\* The target was a broken symlink to another path; the call was applied twice
\* and the target is a symlink to the source.
C30_Witness ==
    /\ InstalledTwice
    /\ Occupant = "broken symlink"
    /\ call.fs[call.target].source # call.source
    /\ DOMAIN call.fs # {call.target}
    /\ returned.second.ok
    /\ returned.second.fs[call.target] = [kind |-> "symlink", source |-> call.source]

\* A reset has returned, or has gone past its checks (no other step changes
\* the record of the command).
ResetAsked == command' # command /\ command'.op = "reset"

\* The reset that was asked without force found uncommitted changes or a git
\* operation in progress, or the user typed something other than yes.
ResetRefused ==
    /\ ResetAsked
    /\ ~command'.force
    /\ command'.dirty \/ command'.in_progress \/ ~confirm_reset(command'.input)

\* Nothing a lockfile tracks is left: no lockfile, no state or cache directory.
Uninstalled ==
    /\ ~lock_disk.exists /\ dirs = {} /\ cache = <<>>
    /\ bin_dir = <<>> /\ share_dir = <<>>

\* The worktree is what the reset target holds, with no operation in progress.
RepositoryReset ==
    /\ repo.state = "Clean" /\ ~repo.untracked
    /\ profile_config = repo.head /\ repo.head = determine_reset_target(repo)

\* C31: a reset without force changes no symlink, lockfile, cache or
\* repository when the profile worktree is dirty or has a git operation in
\* progress, or when the user does not confirm; a reset that proceeds
\* uninstalls first, then resets and cleans the profile repository, then
\* installs.
C31_ResetRefusesOrRunsInOrder ==
    /\ [][ResetRefused => UNCHANGED <<diskVars, repo, profile_config, run>>]_vars
    \* the uninstall comes first and leaves the repository alone
    /\ [][(ResetAsked /\ ~ResetRefused) =>
             /\ run'.cmd = "reset"
             /\ run'.pc = IF repo.git THEN "reset_repository" ELSE "install"
             /\ Uninstalled' \/ ~command'.installed
             /\ UNCHANGED <<repo, profile_config>>]_vars
    \* the repository is reset on the uninstalled workspace, before the install
    /\ [][(run.cmd = "reset" /\ run.pc = "reset_repository" /\ run' # run) =>
             /\ Uninstalled \/ ~command.installed
             /\ RepositoryReset'
             /\ run' = [run EXCEPT !.pc = "install"]
             /\ UNCHANGED diskVars]_vars
    \* the install is the last step, of the manifest the reset left
    /\ [][(run.cmd = "reset" /\ run.pc = "install" /\ run' # run) =>
             /\ RepositoryReset \/ ~repo.git
             /\ run'.cmd \in {"install", "idle"}
             /\ entries' = Some(from_configs(ProfileSource, profile_config,
                                             WorkspaceSource, workspace_config, machine))
             /\ UNCHANGED <<repo, profile_config>>]_vars
    /\ [](run.cmd = "reset" => run.pc \in {"reset_repository", "install"})

\* A forced reset of an installed workspace whose manifest had been edited:
\* the workspace is uninstalled, the manifest is the committed one again, and
\* the install is about to start.
C31_Witness ==
    /\ command.op = "reset" /\ command.force /\ command.dirty /\ command.installed
    /\ run.cmd = "reset" /\ run.pc = "install"
    /\ Uninstalled /\ RepositoryReset
    /\ T_rg \in DOMAIN profile_config

\* The extra of the call has no explicit target and its source was found.
ExtraFound ==
    /\ call.op = "extra" /\ DOMAIN returned # {}
    /\ ~call.extra.target.some
    /\ returned.source.status = "ok"

\* The file the source resolved to.
FoundName == returned.source.path[Len(returned.source.path)]

\* The shells with a completion directory below share, in lower case.
CompletionDirs ==
    (<<"z", "s", "h">> :>
        << <<"z", "s", "h">>,
           <<"s", "i", "t", "e", "-", "f", "u", "n", "c", "t", "i", "o", "n", "s">> >>)
    @@ (<<"b", "a", "s", "h">> :>
        << <<"b", "a", "s", "h", "-", "c", "o", "m", "p", "l", "e", "t", "i", "o", "n", "s">> >>)
    @@ (<<"f", "i", "s", "h">> :>
        << <<"f", "i", "s", "h">>,
           <<"v", "e", "n", "d", "o", "r", "_", "c", "o", "m", "p", "l", "e", "t", "i", "o",
             "n", "s", ".", "d">> >>)

\* The sections a file name ends with: what follows its last dot, when
\* something does and something precedes the dot.
Sections(name) ==
    {SubSeq(name, i + 1, Len(name)) : i \in {j \in 2..(Len(name) - 1) :
        name[j] = "." /\ \A k \in (j + 1)..Len(name) : name[k] # "."}}

\* C32: for an extra without an explicit target, kind completion maps the
\* shell zsh to share/zsh/site-functions, bash to share/bash-completions and
\* fish to share/fish/vendor_completions.d (in any letter case), and fails on
\* any other shell; kind man maps to share/man/man<section>/<filename>, the
\* section being the extension of the resolved file, or 1 when it has none.
C32_CompletionAndManTargets ==
    /\ (ExtraFound /\ call.extra.kind = "completion" /\ call.extra.shell.some) =>
          LET shell == to_ascii_lowercase(call.extra.shell.v)
          IN  IF shell \in DOMAIN CompletionDirs
              THEN /\ returned.target.ok
                   /\ returned.target.path = CompletionDirs[shell] \o <<FoundName>>
              ELSE ~returned.target.ok
    /\ (ExtraFound /\ call.extra.kind = "man") =>
          /\ returned.target.ok
          /\ LET S_man == <<"m", "a", "n">>
                 section == IF Sections(FoundName) = {} THEN <<"1">>
                            ELSE CHOOSE x \in Sections(FoundName) : TRUE
             IN  returned.target.path = <<S_man, S_man \o section, FoundName>>

\* A man page whose name ends in .5, found by its bare name below doc, goes to
\* man/man5.
C32_Witness ==
    /\ ExtraFound /\ call.extra.kind = "man"
    /\ Len(returned.source.path) = 2
    /\ Sections(FoundName) = {<<"5">>}
    /\ returned.target.path[2] = <<"m", "a", "n", "5">>

\* An extra of kind other without an explicit target has gone through the loop.
OtherExtraTried ==
    /\ call.op = "extra" /\ DOMAIN returned # {}
    /\ call.extra.kind = "other" /\ ~call.extra.target.some

\* C33: an extra of kind other without an explicit target is installed at
\* <share>/extras/<sanitized tool name>/<relative source path> when its source
\* is relative (and found), and at the literal source path when its source is
\* absolute.
C33_OtherExtraTarget ==
    OtherExtraTried =>
        IF call.extra.source[1] = "/"
        THEN returned.target.ok /\ returned.target.path = <<call.extra.source>>
        ELSE returned.source.status = "ok" =>
                /\ returned.target.ok
                /\ returned.target.path =
                      << <<"e", "x", "t", "r", "a", "s">>, sanitize_component(call.tool)>>
                         \o split_nonempty(call.extra.source, {"/"}, <<>>)

\* The archive of the task in hand has been extracted and its task goes on.
Extracted == run.pc \in {"bins", "extras", "record"}

\* The extraction directory of the task in hand.
ExtractedTree == cache[attempt.version_dir].contents.tree

\* C34: the extraction directory of a tool version is deleted recursively
\* before the archive is extracted into it: after a successful extraction it
\* holds the entries of the archive just extracted and nothing else.
C34_ExtractionDirectoryHoldsOnlyTheArchive ==
    Extracted =>
        /\ asset_exists(cache, attempt.version_dir, asset_name)
        /\ cache[attempt.version_dir].contents.exists
        /\ ExtractedTree = ArchiveTree(cache[attempt.version_dir].assets[asset_name])

\* The run found a foreign file in the extraction directory of the version it
\* installs; the archive has been extracted again and the file is gone.
C34_Witness ==
    /\ Extracted
    /\ attempt.version_dir \in DOMAIN before.cache
    /\ <<N_stale>> \in before.cache[attempt.version_dir].contents.tree
    /\ <<N_stale>> \notin ExtractedTree
    /\ ExtractedTree # {}

\* A download_asset call is under way or has returned.
Downloading == call.op = "download" /\ DOMAIN returned # {}

\* C35: download_asset writes the body to a .download temporary file and
\* renames it to the destination only after the whole body is written: a
\* file at the destination never holds a part of the body.
C35_DestinationNeverHoldsAPartialBody ==
    (Downloading /\ call.dest \in DOMAIN returned.files) =>
        returned.files[call.dest] = call.response.body

\* The symlinks directly inside the bin directory that no binary link of the
\* lockfile on disk has as its target.
OrphanedSymlinks ==
    {k \in DOMAIN bin_dir :
        /\ bin_dir[k].kind = "symlink"
        /\ ~lock_disk.exists \/ k \notin BinaryTargets(Lockfile_load(lock_disk))}

\* C36: after any install or update run ends, whether it succeeded or failed,
\* every symlink directly inside the bin directory is the target of a binary
\* link recorded in the lockfile on disk.
C36_NoOrphanedSymlinksAfterARun ==
    RunEnded => OrphanedSymlinks = {}

\* C37: after a successful install every binary link recorded in the saved
\* lockfile has its target on disk as a symlink that points to the recorded
\* source, whatever the tool definitions are, different tools that declare the
\* same link name included.
C37_RecordedLinksPointToTheirSource ==
    InstallSucceeded => RecordedLinks \subseteq LinksOnDisk

====
